---- MODULE Spec2Model ----
(***************************************************************************)
(* Session state store of movie-tally-time: the useMovieSession hook, the  *)
(* pure helpers of lib/sessionHelpers, and the persistence tables the hook *)
(* reads and writes.                                                       *)
(*                                                                         *)
(* Titles are modelled by their collation rank (1, 2, ...), so that        *)
(* String.localeCompare is the comparison of ranks.  A person's display    *)
(* name is not modelled: it plays no part in ranking, sorting or the       *)
(* persistence writes below.                                               *)
(***************************************************************************)
EXTENDS Integers, Sequences, FiniteSets, TLC

\* ------------------------------------------------------------------ bounds
\* titles of the lists handed to the sort
NTitles == 2
\* length of the lists handed to the sort
MaxLen == 3
\* length of the lists handed to the ranking
MaxRanked == 2
\* user operations, writes of other tabs and failed persistence calls per run
MaxOps == 4
\* undelivered change events an operation may start over
MaxFeed == 0

\* ------------------------------------------------------- program constants
MaxRating == 5
DefaultRating == 5
MaxMovies == 3

\* ---------------------------------------------------------------- universe
PersonIds == {"A", "B", "C"}
NoPerson == ""
Titles == 1..NTitles
Ratings == 0..MaxRating

VARIABLES
    \* ---- the hook's React state (one browser tab)
    people,            \* useState<Person[]>: <<[id, isPresent, movies]>>
    movieRatings,      \* useState<MovieRating[]>
    selectedPersonId,  \* useState<string>
    shouldSort,        \* useState<boolean>
    \* ---- persistence (the tables of supabase/migrations)
    session_people,    \* {[id, is_present]}
    movie_proposals,   \* {[id, person_id, movie_title]}
    movie_ratings,     \* {[proposal_id, person_id, rating, watched_movie_id]}
    proposal_comments, \* {proposal_id}: one comment row per proposal
    watched_movies,    \* {[id, movie_title, proposed_by]}
    nextId,            \* the next generated row id
    \* ---- control
    op,                \* the async handler in flight and its position
    feed,              \* postgres_changes events not yet delivered to the tab
    opsLeft,           \* how many more operations may be started
    last,              \* the step taken last (history, for the properties)
    \* ---- callers of the pure helpers
    sortCall,          \* the last call of sortMovieRatings: argument, result
    view,              \* what the panels rendered last (the computed views)
    \* ---- the propose-movie-with-details edge function
    edge,              \* [next: request counter, reqs: requests in flight]
    \* ---- useFavouriteMovie
    favourite_movies,  \* persistence: {[person_id, proposal_id]}
    favoriteProposalId, \* useState<string | null>
    favOp,             \* [next: call counter, ops: the hook's calls in flight]
    \* ---- the watched-movies page
    detailedRatings,   \* useState<DetailedRating[]>
    detailed_ratings,  \* persistence: {[id, watched_movie_id, person_id, rating, present]}
    localPresentStates, \* Record<`${movieId}-${personId}`, boolean>
    \* ---- the browser's cookie jar
    cookies,           \* the cookie jar: [name, value, expires]
    now,               \* the browser's clock, in days
    \* ---- one StarRating control and its parent
    star,              \* the StarRating control: its props, the calls of
                       \* onRatingChange and the clicks it received
    \* ---- the realtime subscriptions of the two stores
    realtime,          \* per store: [sessionId, mounted, effect], and the
                       \* channels the client holds
    \* ---- the details look-ups of useMovieSession
    fetchingDetails,   \* useState<boolean>
    fetchAllOp         \* the call of fetchAllMovieDetails in flight

localVars == <<people, movieRatings, selectedPersonId, shouldSort>>
dbVars == <<session_people, movie_proposals, movie_ratings, proposal_comments,
            watched_movies, nextId>>
helperVars == <<sortCall, view>>
ctlVars == <<op, feed, opsLeft>>
favVars == <<favourite_movies, favoriteProposalId, favOp>>
detailedVars == <<detailedRatings, localPresentStates, detailed_ratings>>
cookieVars == <<cookies, now>>
detailsVars == <<fetchingDetails, fetchAllOp>>
extraVars == <<edge, favVars, detailedVars, cookieVars, star, realtime, detailsVars>>
vars == <<people, movieRatings, selectedPersonId, shouldSort,
          session_people, movie_proposals, movie_ratings, proposal_comments,
          watched_movies, nextId, op, feed, opsLeft, last, sortCall, view,
          edge, favourite_movies, favoriteProposalId, favOp,
          detailedRatings, localPresentStates, detailed_ratings,
          cookies, now, star, realtime, fetchingDetails, fetchAllOp>>

\* --------------------------------------------------------- rating records
NoRatings == [q \in {} |-> 0]

\* { ...ratings, [personId]: rating }
WithRating(ratings, personId, rating) ==
    [q \in (DOMAIN ratings) \cup {personId} |->
        IF q = personId THEN rating ELSE ratings[q]]

\* delete ratings[personId]
WithoutRating(ratings, personId) ==
    [q \in (DOMAIN ratings) \ {personId} |-> ratings[q]]

\* ratings[personId] !== undefined && ratings[personId] > 0
IsRated(movie, personId) ==
    personId \in DOMAIN movie.ratings /\ movie.ratings[personId] > 0

\* ----------------------------------------------------- Array.prototype.*
\* a.movieTitle.localeCompare(b.movieTitle), titles being collation ranks
localeCompare(a, b) == IF a < b THEN -1 ELSE IF a > b THEN 1 ELSE 0

\* The comparator callbacks handed to Array.prototype.sort.
\*   key.by = "title"   : (a, b) => a.movieTitle.localeCompare(b.movieTitle)
\*   key.by = "person"  : not-voted first, then voted; alphabetical inside
\*   key.by = "average" : (a, b) => b.averageRating - a.averageRating
\* mutant: voted first
CompareForPerson_RatedFirst(personId, a, b) ==
    LET aRated == IsRated(a, personId)
        bRated == IsRated(b, personId)
    IN  IF aRated # bRated
        THEN (IF aRated THEN -1 ELSE 1)
        ELSE localeCompare(a.movieTitle, b.movieTitle)

CompareForPerson(personId, a, b) ==
    LET aRated == IsRated(a, personId)
        bRated == IsRated(b, personId)
    IN  IF aRated # bRated
        THEN (IF aRated THEN 1 ELSE -1)
        ELSE localeCompare(a.movieTitle, b.movieTitle)

CompareAverage(a, b) ==
    LET d == b.averageRating.num * a.averageRating.den
             - a.averageRating.num * b.averageRating.den
    IN  IF d < 0 THEN -1 ELSE IF d > 0 THEN 1 ELSE 0

\* key.by = "date": the watch dates, as getTime() gives them
CompareDate(asc, a, b) ==
    IF asc THEN a.watched_at - b.watched_at ELSE b.watched_at - a.watched_at

Comparator(key, a, b) ==
    IF key.by = "title" THEN localeCompare(a.movieTitle, b.movieTitle)
    ELSE IF key.by = "person" THEN CompareForPerson(key.personId, a, b)
    ELSE IF key.by = "date" THEN CompareDate(key.asc, a, b)
    ELSE CompareAverage(a, b)

\* Array.prototype.sort is stable (ES2019): with a consistent comparator its
\* result is the one a stable insertion sort produces.
RECURSIVE SortInsert(_, _, _)
SortInsert(key, sorted, x) ==
    IF sorted = <<>> THEN <<x>>
    ELSE IF Comparator(key, x, Head(sorted)) < 0 THEN <<x>> \o sorted
    ELSE <<Head(sorted)>> \o SortInsert(key, Tail(sorted), x)

RECURSIVE ArraySort(_, _)
ArraySort(key, arr) ==
    IF arr = <<>> THEN <<>>
    ELSE SortInsert(key, ArraySort(key, SubSeq(arr, 1, Len(arr) - 1)), arr[Len(arr)])

\* ------------------------------------------- lib/sessionHelpers.ts
\* mutant: the no-person branch sorts like the "A" branch
SortKey_NoPersonAsA(personId) ==
    IF personId = NoPerson THEN [by |-> "person", personId |-> "A"]
    ELSE [by |-> "person", personId |-> personId]

SortKey(personId) ==
    IF personId = NoPerson THEN [by |-> "title"]
    ELSE [by |-> "person", personId |-> personId]

\* mutant: ratings.sort(...) without the copy sorts the argument in place
sortMovieRatings_InPlace(ratings, personId) ==
    [ret |-> ArraySort(SortKey(personId), ratings),
     arg |-> ArraySort(SortKey(personId), ratings)]

\* sortMovieRatings(ratings, personId): the returned array, and the argument
\* array as the call leaves it ([...ratings] sorts a copy).
sortMovieRatings(ratings, personId) ==
    [ret |-> ArraySort(SortKey(personId), ratings), arg |-> ratings]

\* ------------------------------------------- useMovieSession: computed
\* mutant: the suppression flag is not looked at
getSortedMovies_Always == ArraySort(SortKey(selectedPersonId), movieRatings)

getSortedMovies ==
    IF ~shouldSort THEN movieRatings
    ELSE ArraySort(SortKey(selectedPersonId), movieRatings)

\* const presentPeople = people.filter(p => p.isPresent)
\* mutant: presence is not looked at
presentPeople_Everyone == people

presentPeople == SelectSeq(people, LAMBDA p : p.isPresent)

RECURSIVE SeqSum(_)
SeqSum(s) == IF s = <<>> THEN 0 ELSE Head(s) + SeqSum(Tail(s))

RECURSIVE GCD(_, _)
GCD(a, b) == IF b = 0 THEN a ELSE GCD(b, a % b)

\* The number sum / n (n > 0), kept exact as a reduced fraction.
Quotient(sum, n) ==
    [num |-> sum \div GCD(sum, n), den |-> n \div GCD(sum, n)]

Zero == [num |-> 0, den |-> 1]

\* mutant: every person's rating counts, present or not
validRatings_AllPeople(movie) ==
    LET mapped == [i \in 1..Len(people) |->
                     LET id == people[i].id
                     IN  IF id \in DOMAIN movie.ratings
                         THEN [isNumber |-> TRUE, r |-> movie.ratings[id]]
                         ELSE [isNumber |-> FALSE, r |-> 0]]
        kept == SelectSeq(mapped, LAMBDA x : x.isNumber /\ x.r > 0)
    IN  [i \in 1..Len(kept) |-> kept[i].r]

\* presentPeople.map(p => movie.ratings[p.id])
\*              .filter(r => typeof r === "number" && r > 0)
validRatings(movie) ==
    LET present == presentPeople
        mapped == [i \in 1..Len(present) |->
                     LET id == present[i].id
                     IN  IF id \in DOMAIN movie.ratings
                         THEN [isNumber |-> TRUE, r |-> movie.ratings[id]]
                         ELSE [isNumber |-> FALSE, r |-> 0]]
        kept == SelectSeq(mapped, LAMBDA x : x.isNumber /\ x.r > 0)
    IN  [i \in 1..Len(kept) |-> kept[i].r]

\* the .map callback of rankedMovies: { ...movie, averageRating, totalRatings }
WithStats(movie) ==
    LET valid == validRatings(movie)
    IN  [movieTitle |-> movie.movieTitle,
         proposerId |-> movie.proposerId,
         proposalId |-> movie.proposalId,
         ratings |-> movie.ratings,
         averageRating |-> IF Len(valid) > 0
                           THEN Quotient(SeqSum(valid), Len(valid)) ELSE Zero,
         totalRatings |-> Len(valid)]

\* mutant: any positive rating of a present person admits the movie
RankedFilter_AnyPresentRating(movie) ==
    \E i \in 1..Len(presentPeople) : IsRated(movie, presentPeople[i].id)

\* the .filter callback of rankedMovies
RankedFilter(movie) ==
    LET proposerId == movie.proposerId
        present == presentPeople
    IN  IF proposerId = NoPerson
           \/ ~(\E i \in 1..Len(present) : present[i].id = proposerId)
        THEN FALSE
        ELSE \E i \in 1..Len(present) :
                /\ present[i].id # proposerId
                /\ IsRated(movie, present[i].id)

rankedMovies ==
    LET stats == [i \in 1..Len(movieRatings) |-> WithStats(movieRatings[i])]
    IN  ArraySort([by |-> "average"], SelectSeq(stats, RankedFilter))

\* MovieCard.tsx: ratedPeople, totalRatings, averageRating of one card
MovieCardStats(movie) ==
    LET ratedPeople == SelectSeq(presentPeople, LAMBDA p : IsRated(movie, p.id))
        totalRatings == Len(ratedPeople)
        sum == SeqSum([i \in 1..totalRatings |-> movie.ratings[ratedPeople[i].id]])
    IN  [totalRatings |-> totalRatings,
         averageRating |-> IF totalRatings > 0 THEN Quotient(sum, totalRatings) ELSE Zero]

\* ======================================================================
\* The pure helpers and the computed views on their own: the inputs are
\* drawn from bounded sets, the actions call the helper or render the views.
\* ======================================================================
Idle == [type |-> "idle"]
NoStep == [act |-> "none"]
NotCalled == [called |-> FALSE]

\* Partial rating maps: each person of DOMAIN options either has no entry or
\* one of the values options offers for that person.
PartialMaps(options) ==
    { f \in UNION { [D -> Ratings] : D \in SUBSET (DOMAIN options) } :
        \A q \in DOMAIN f : f[q] \in options[q] }

ListsOf(shapes, maxLen) ==
    UNION { { [i \in 1..n |->
                 [movieTitle |-> f[i].movieTitle, proposerId |-> f[i].proposerId,
                  proposalId |-> i, ratings |-> f[i].ratings]] :
              f \in [1..n -> shapes] } : n \in 0..maxLen }

\* JavaScript's null, where a number or an id may stand
Null == -1

\* the parts of the program a specification leaves out stay as constructed
NoEdge == edge = [next |-> 1, reqs |-> {}]
NoFavourite ==
    /\ favourite_movies = {} /\ favoriteProposalId = Null
    /\ favOp = [next |-> 1, ops |-> {}]
NoDetailed ==
    detailedRatings = <<>> /\ localPresentStates = <<>> /\ detailed_ratings = {}
NoCookies == cookies = {} /\ now = 0
NoStar == star = [rating |-> 0, readonly |-> TRUE, calls |-> <<>>, clicks |-> <<>>]
\* ---- the session of the two stores and their subscriptions
Stores == {"useMovieSession", "useWatchedMoviesData"}
SessionIds == {"s1", "s2"}
NoSession == ""
NoFilter == ""

\* the bindings the effect of a store declares for a session id
ChannelsOf(h, sessionId) ==
    IF h = "useMovieSession"
    THEN {[topic |-> <<"session-ratings", sessionId>>,
           bindings |-> {[table |-> "movie_ratings", filter |-> NoFilter]}],
          [topic |-> <<"session-people", sessionId>>,
           bindings |-> {[table |-> "session_people", filter |-> sessionId]}],
          [topic |-> <<"session-proposals", sessionId>>,
           bindings |-> {[table |-> "movie_proposals", filter |-> sessionId]}]}
    ELSE {[topic |-> <<"watched-movies", sessionId>>,
           bindings |-> {[table |-> "watched_movies", filter |-> sessionId],
                         [table |-> "detailed_ratings", filter |-> NoFilter]}]}

RealtimeTables ==
    {"movie_ratings", "session_people", "movie_proposals", "watched_movies",
     "detailed_ratings"}

\* the clean-up function an effect run returns: removeChannel for each
\* channel the run made
cleanup_None(channels, effect) == channels
cleanup(channels, effect) == channels \ effect

\* the effect body: nothing without a session id, else one new channel per
\* topic, numbered in the order of creation
RECURSIVE Subscribe(_, _, _, _)
Subscribe(h, sessionId, decls, next) ==
    IF decls = {} THEN {}
    ELSE LET d == CHOOSE x \in decls : TRUE
         IN  {[store |-> h, topic |-> d.topic, sessionId |-> sessionId,
               bindings |-> d.bindings, no |-> next]}
             \cup Subscribe(h, sessionId, decls \ {d}, next + 1)

useEffect_subscribe(h, sessionId, next) ==
    IF sessionId = NoSession THEN {}
    ELSE Subscribe(h, sessionId, ChannelsOf(h, sessionId), next)

\* the session id a store works on: useState<string | null> of
\* useMovieSession, the sessionId prop of useWatchedMoviesData
SessionOf(h) == realtime.stores[h].sessionId
NoSessionLoaded == SessionOf("useMovieSession") = NoSession

\* both stores mounted, without a session and without a channel
NoSubscription ==
    realtime = [stores |-> [h \in Stores |-> [sessionId |-> NoSession, previous |-> NoSession,
                                               mounted |-> TRUE, effect |-> {}]],
                channels |-> {}, next |-> 1]

\* both stores mounted on a session, each holding the channels its effect
\* made
Subscribed(id) ==
    LET made == [h \in Stores |->
                    useEffect_subscribe(h, id, IF h = "useMovieSession" THEN 1 ELSE 4)]
    IN  realtime = [stores |-> [h \in Stores |-> [sessionId |-> id, previous |-> NoSession,
                                                   mounted |-> TRUE, effect |-> made[h]]],
                    channels |-> UNION { made[h] : h \in Stores }, next |-> 5]

\* a loaded session whose subscriptions stay as they are
NoRealtime == Subscribed("s1")
NoFetch == fetchingDetails = FALSE /\ fetchAllOp = Idle
NoExtras == NoEdge /\ NoFavourite /\ NoDetailed /\ NoCookies /\ NoStar /\ NoRealtime
            /\ NoFetch

NoControl ==
    /\ op = Idle /\ feed = <<>> /\ opsLeft = 0 /\ last = NoStep
    /\ NoExtras

EmptyTables ==
    /\ session_people = {} /\ movie_proposals = {} /\ movie_ratings = {}
    /\ proposal_comments = {} /\ watched_movies = {} /\ nextId = 1

\* ---- lib/sessionHelpers.sortMovieRatings and getSortedMovies
SortShapes ==
    [movieTitle : Titles, proposerId : {"C"},
     ratings : PartialMaps([A |-> {0, 4}]) \cup {[B |-> 2]}]

SortPersons == {NoPerson, "A", "B"}

InitSort ==
    /\ people = <<>>
    /\ movieRatings \in ListsOf(SortShapes, MaxLen)
    /\ selectedPersonId \in SortPersons
    /\ shouldSort = TRUE
    /\ EmptyTables /\ NoControl
    /\ sortCall = NotCalled /\ view = NotCalled

CallSortMovieRatings ==
    LET call == sortMovieRatings(movieRatings, selectedPersonId)
    IN  /\ sortCall' = [called |-> TRUE, input |-> movieRatings,
                        personId |-> selectedPersonId,
                        ret |-> call.ret, arg |-> call.arg]
        /\ UNCHANGED <<localVars, dbVars, ctlVars, last, view, extraVars>>

\* setSelectedPersonId(id): useMovieSession.ts 522-527
setSelectedPersonId(id) ==
    /\ shouldSort' = TRUE
    /\ selectedPersonId' = id
    /\ UNCHANGED <<people, movieRatings, dbVars, ctlVars, last, helperVars,
                   extraVars>>

\* A render: the panels read the computed views of the current state.
Render ==
    /\ view' = [called |-> TRUE,
                rate |-> getSortedMovies,
                ranked |-> rankedMovies,
                cards |-> [i \in 1..Len(movieRatings) |-> MovieCardStats(movieRatings[i])]]
    /\ UNCHANGED <<localVars, dbVars, ctlVars, last, sortCall, extraVars>>

NextSort == CallSortMovieRatings

SpecSort == InitSort /\ [][NextSort]_vars

\* ---- rankedMovies and MovieCard
RankShapes ==
    [movieTitle : {1}, proposerId : {"A", NoPerson},
     ratings : { WithRating(f, "A", DefaultRating) :
                   f \in PartialMaps([B |-> {0, 2}, C |-> {1}]) }
               \cup {NoRatings, [B |-> 2]}]

Rosters ==
    { [i \in 1..3 |-> [id |-> <<"A", "B", "C">>[i], isPresent |-> f[i], movies |-> <<>>]] :
        f \in [1..3 -> BOOLEAN] }

InitRank ==
    /\ people \in Rosters
    /\ movieRatings \in ListsOf(RankShapes, MaxRanked)
    /\ selectedPersonId = NoPerson
    /\ shouldSort = TRUE
    /\ EmptyTables /\ NoControl
    /\ sortCall = NotCalled /\ view = NotCalled

NextRank == Render

SpecRank == InitRank /\ [][NextRank]_vars

\* ======================================================================
\* The session store: persistence, the change feed, the async handlers.
\* Each action is one run of the event loop: a handler from its start, or
\* from the await it is parked on, up to its next await.  A persistence call
\* takes effect in the step that resumes from it.
\* ======================================================================
\* The rows of a select without ORDER BY come back in some order.
Orderings(S) ==
    { s \in [1..Cardinality(S) -> S] : \A i, j \in 1..Cardinality(S) : s[i] = s[j] => i = j }

\* session_people rows are returned in the order the people were added (the
\* order of the roster plays no part in any computation below).
PersonOrder == <<"A", "B", "C">>

InIdOrder(S) ==
    [k \in 1..Len(SelectSeq(PersonOrder, LAMBDA q : \E r \in S : r.id = q)) |->
        CHOOSE r \in S : r.id = SelectSeq(PersonOrder, LAMBDA q : \E x \in S : x.id = q)[k]]

\* ---- postgres_changes payloads.  For INSERT and UPDATE the fields are those
\* of payload.new, for DELETE those of payload.old.
Event(table, eventType, id, personId, proposalId, title, rating, isPresent) ==
    [table |-> table, eventType |-> eventType, id |-> id, person_id |-> personId,
     proposal_id |-> proposalId, movie_title |-> title, rating |-> rating,
     is_present |-> isPresent]

RatingEvent(eventType, row) ==
    Event("movie_ratings", eventType, 0, row.person_id, row.proposal_id, 0, row.rating, FALSE)

\* payload.old of a DELETE carries the whole row only under REPLICA IDENTITY
\* FULL; otherwise it carries the primary key alone.
RatingDeleteEvent(row, full) ==
    IF full THEN RatingEvent("DELETE", row)
    ELSE Event("movie_ratings", "DELETE", 0, NoPerson, 0, 0, 0, FALSE)

PersonEvent(eventType, row) ==
    Event("session_people", eventType, row.id, NoPerson, 0, 0, 0, row.is_present)

ProposalEvent(eventType, row) ==
    Event("movie_proposals", eventType, row.id, row.person_id, 0, row.movie_title, 0, FALSE)

RECURSIVE SetToSeq(_)
SetToSeq(S) ==
    IF S = {} THEN <<>>
    ELSE LET x == CHOOSE y \in S : TRUE IN <<x>> \o SetToSeq(S \ {x})

\* ---- persistence writes: the tables after the write, and its events
RatingRow(proposalId, personId) ==
    { r \in movie_ratings : r.proposal_id = proposalId /\ r.person_id = personId }

\* upsert({proposal_id, person_id, rating}, {onConflict: 'proposal_id,person_id'})
UpsertRating(proposalId, personId, rating) ==
    LET old == RatingRow(proposalId, personId)
        row == [proposal_id |-> proposalId, person_id |-> personId, rating |-> rating,
                watched_movie_id |-> IF old = {} THEN 0
                                     ELSE (CHOOSE r \in old : TRUE).watched_movie_id]
    IN  [ratings |-> (movie_ratings \ old) \cup {row},
         events |-> <<RatingEvent(IF old = {} THEN "INSERT" ELSE "UPDATE", row)>>]

\* delete().eq('proposal_id', proposalId).eq('person_id', personId)
\* mutant: a rating of 0 is stored instead of the row being deleted
DeleteRating_StoresZero(proposalId, personId, full) ==
    UpsertRating(proposalId, personId, 0)

DeleteRating(proposalId, personId, full) ==
    LET old == RatingRow(proposalId, personId)
    IN  [ratings |-> movie_ratings \ old,
         events |-> IF old = {} THEN <<>>
                    ELSE <<RatingDeleteEvent(CHOOSE r \in old : TRUE, full)>>]

\* delete from movie_proposals where id in ids.  movie_ratings.proposal_id is
\* declared ON DELETE CASCADE, as is every foreign key of the migrations; the
\* comment rows of a deleted proposal go the same way.
DeleteProposals(ids, full) ==
    LET gone == { p \in movie_proposals : p.id \in ids }
        goneRatings == { r \in movie_ratings : r.proposal_id \in ids }
    IN  [proposals |-> movie_proposals \ gone,
         ratings |-> movie_ratings \ goneRatings,
         comments |-> proposal_comments \ ids,
         events |-> [i \in 1..Cardinality(goneRatings) |->
                        RatingDeleteEvent(SetToSeq(goneRatings)[i], full)]
                    \o [i \in 1..Cardinality(gone) |->
                        ProposalEvent("DELETE", SetToSeq(gone)[i])]]

\* ---- array helpers of the handlers
MapSeq(s, F(_)) == [i \in 1..Len(s) |-> F(s[i])]

Contains(s, x) == \E i \in 1..Len(s) : s[i] = x

\* Array.from(new Set(s)): the first occurrence of each element, in order
ArrayFromSet(s) ==
    LET firsts == { i \in 1..Len(s) : \A j \in 1..(i - 1) : s[j] # s[i] }
        Nth(k) == CHOOSE i \in firsts : Cardinality({ j \in firsts : j <= i }) = k
    IN  [k \in 1..Cardinality(firsts) |-> s[Nth(k)]]

Movie(title, proposerId, proposalId, ratings) ==
    [movieTitle |-> title, proposerId |-> proposerId, proposalId |-> proposalId,
     ratings |-> ratings]

\* transformPeopleData(peopleData, proposals)
transformPeopleData(peopleData, proposals) ==
    MapSeq(InIdOrder(peopleData), LAMBDA person :
        [id |-> person.id, isPresent |-> person.is_present,
         movies |-> MapSeq(SelectSeq(proposals, LAMBDA p : p.person_id = person.id),
                           LAMBDA p : p.movie_title)])

\* transformRatingsData(proposalsData, peopleData)
transformRatingsData(proposals) ==
    MapSeq(proposals, LAMBDA p : Movie(p.movie_title, p.person_id, p.id, p.ratings))

\* select('*, movie_ratings(*), proposal_comments(*)'): each proposal with its
\* rating rows folded into a map, as transformRatingsData folds them
JoinedProposals ==
    { [id |-> p.id, person_id |-> p.person_id, movie_title |-> p.movie_title,
       ratings |-> [q \in { r.person_id : r \in { x \in movie_ratings : x.proposal_id = p.id } } |->
                      (CHOOSE r \in movie_ratings :
                          r.proposal_id = p.id /\ r.person_id = q).rating]] :
      p \in movie_proposals }

\* ---- control
Enqueue(events) == feed' = feed \o events

\* An operation may start while the budget lasts and at most MaxFeed events
\* of earlier writes are still undelivered.
CanStart == opsLeft > 0 /\ Len(feed) <= MaxFeed

Quiet == UNCHANGED <<helperVars, extraVars>>

\* ---- loadSessionData: the two fetches of Promise.all resolve in either
\* order; the continuation runs with the second.
Loading == [type |-> "load", gotPeople |-> FALSE, gotProposals |-> FALSE,
            peopleData |-> {}, proposals |-> <<>>]

LoadSettled(peopleData, proposals) ==
    /\ people' = transformPeopleData(peopleData, proposals)
    /\ movieRatings' = sortMovieRatings(transformRatingsData(proposals), selectedPersonId).ret
    /\ shouldSort' = TRUE
    /\ op' = Idle
    /\ UNCHANGED selectedPersonId

fetchSessionPeople ==
    /\ op.type = "load" /\ ~op.gotPeople
    /\ IF op.gotProposals
       THEN LoadSettled(session_people, op.proposals)
       ELSE /\ op' = [op EXCEPT !.gotPeople = TRUE, !.peopleData = session_people]
            /\ UNCHANGED localVars
    /\ last' = NoStep
    /\ UNCHANGED <<dbVars, feed, opsLeft>> /\ Quiet

fetchProposalsWithRatingsAndComments ==
    /\ op.type = "load" /\ ~op.gotProposals
    /\ \E proposals \in Orderings(JoinedProposals) :
          IF op.gotPeople
          THEN LoadSettled(op.peopleData, proposals)
          ELSE /\ op' = [op EXCEPT !.gotProposals = TRUE, !.proposals = proposals]
               /\ UNCHANGED localVars
    /\ last' = NoStep
    /\ UNCHANGED <<dbVars, feed, opsLeft>> /\ Quiet

\* ---- the realtime handlers
OnRatingsChange ==
    /\ feed # <<>> /\ Head(feed).table = "movie_ratings"
    /\ LET payload == Head(feed)
           proposalId == payload.proposal_id
           hasProposalIds == \E i \in 1..Len(movieRatings) : movieRatings[i].proposalId # 0
           isRelevant == \E i \in 1..Len(movieRatings) : movieRatings[i].proposalId = proposalId
           Patch(movie) ==
               IF movie.proposalId # proposalId THEN movie
               ELSE IF payload.eventType = "DELETE"
                    THEN IF payload.person_id # NoPerson
                         THEN [movie EXCEPT !.ratings = WithoutRating(@, payload.person_id)]
                         ELSE movie
                    ELSE [movie EXCEPT !.ratings = WithRating(@, payload.person_id, payload.rating)]
       IN  movieRatings' = IF hasProposalIds /\ isRelevant
                           THEN MapSeq(movieRatings, Patch)
                           ELSE movieRatings
    /\ feed' = Tail(feed)
    /\ last' = NoStep
    /\ UNCHANGED <<people, selectedPersonId, shouldSort, dbVars, op, opsLeft>> /\ Quiet

OnPeopleChange ==
    /\ feed # <<>> /\ Head(feed).table = "session_people"
    /\ LET payload == Head(feed)
       IN  /\ people' =
                 CASE payload.eventType = "INSERT" ->
                        IF \E i \in 1..Len(people) : people[i].id = payload.id
                        THEN people
                        ELSE Append(people, [id |-> payload.id, isPresent |-> payload.is_present,
                                             movies |-> <<>>])
                   [] payload.eventType = "UPDATE" ->
                        MapSeq(people, LAMBDA p :
                            IF p.id = payload.id
                            THEN [p EXCEPT !.isPresent = payload.is_present] ELSE p)
                   [] OTHER -> SelectSeq(people, LAMBDA p : p.id # payload.id)
           /\ last' = IF payload.eventType = "UPDATE"
                      THEN [act |-> "peopleUpdate", personId |-> payload.id,
                            isPresent |-> payload.is_present]
                      ELSE NoStep
    /\ feed' = Tail(feed)
    /\ UNCHANGED <<movieRatings, selectedPersonId, shouldSort, dbVars, op, opsLeft>> /\ Quiet

\* details: updated.poster ? {poster: updated.poster, ...} : m.details.  The
\* details of an entry are carried where the look-ups are modelled, as the
\* poster they hold; elsewhere entries and events go without them.
WithEventDetails(m, payload) ==
    IF "poster" \in DOMAIN payload /\ payload.poster # "none"
    THEN [m EXCEPT !.details = payload.poster]
    ELSE m

\* mutant: the entries without a proposal id go with the deleted proposal
WithoutProposal_AndUnstamped(ratings, deletedId) ==
    SelectSeq(ratings, LAMBDA m : m.proposalId # deletedId /\ m.proposalId # 0)

\* prev.filter(m => m.proposalId !== deletedId)
WithoutProposal(ratings, deletedId) ==
    SelectSeq(ratings, LAMBDA m : m.proposalId # deletedId)

OnProposalsChange ==
    /\ feed # <<>> /\ Head(feed).table = "movie_proposals"
    /\ LET payload == Head(feed)
       IN  CASE payload.eventType = "INSERT" ->
                  /\ movieRatings' =
                        IF \E i \in 1..Len(movieRatings) : movieRatings[i].proposalId = payload.id
                        THEN movieRatings
                        ELSE Append(movieRatings,
                                    Movie(payload.movie_title, payload.person_id, payload.id, NoRatings))
                  /\ people' = MapSeq(people, LAMBDA p :
                        IF p.id = payload.person_id
                        THEN [p EXCEPT !.movies = ArrayFromSet(Append(@, payload.movie_title))]
                        ELSE p)
             [] payload.eventType = "UPDATE" ->
                  /\ movieRatings' = MapSeq(movieRatings, LAMBDA m :
                        IF m.proposalId = payload.id
                        THEN WithEventDetails([m EXCEPT !.movieTitle = payload.movie_title],
                                              payload)
                        ELSE m)
                  /\ UNCHANGED people
             [] OTHER ->
                  /\ movieRatings' = WithoutProposal(movieRatings, payload.id)
                  /\ UNCHANGED people
    /\ feed' = Tail(feed)
    /\ last' = IF Head(feed).eventType = "DELETE"
               THEN [act |-> "proposalsDelete", id |-> Head(feed).id]
               ELSE NoStep
    /\ UNCHANGED <<selectedPersonId, shouldSort, dbVars, op, opsLeft>> /\ Quiet

\* ---- the effect that attaches proposalId / proposerId: it reads the
\* proposals with the titles on screen and patches the entries without an id.
\* A run whose movieRatings changed before its select resolved is dropped
\* (mounted = false), so the select and the patch see the same movieRatings.
AttachProposalIds ==
    /\ \E i \in 1..Len(movieRatings) : movieRatings[i].proposalId = 0
    /\ \E proposals \in Orderings(movie_proposals) :
          LET First(title) ==
                  LET list == SelectSeq(proposals, LAMBDA p : p.movie_title = title)
                  IN  IF list = <<>> THEN [id |-> 0, person_id |-> NoPerson]
                      ELSE [id |-> list[1].id, person_id |-> list[1].person_id]
          IN  movieRatings' = MapSeq(movieRatings, LAMBDA m :
                  IF m.proposalId # 0 THEN m
                  ELSE [m EXCEPT !.proposalId = First(m.movieTitle).id,
                                 !.proposerId = First(m.movieTitle).person_id])
    /\ movieRatings' # movieRatings
    /\ last' = NoStep
    /\ UNCHANGED <<people, selectedPersonId, shouldSort, dbVars, ctlVars>> /\ Quiet

\* ---- the inputs of the session: who proposes which title, who clicks
\* which star (a click on the star that is lit sends 0)
Catalogue == {1}
Proposers == {"A", "B"}
RatingInputs == {[personId |-> "B", rating |-> 3], [personId |-> "B", rating |-> 0],
                 [personId |-> "C", rating |-> 1]}
RemoteRatingInputs == {[personId |-> "C", rating |-> 1]}
RemotePresenceInputs == {"A"}

\* ---- writes of the other browser tabs of the session

RemoteRating ==
    /\ CanStart
    /\ \E p \in movie_proposals, input \in RemoteRatingInputs, full \in BOOLEAN :
          LET w == IF input.rating = 0 THEN DeleteRating(p.id, input.personId, full)
                   ELSE UpsertRating(p.id, input.personId, input.rating)
          IN  /\ w.events # <<>>
              /\ (input.rating = 0 \/ full)
              /\ movie_ratings' = w.ratings
              /\ Enqueue(w.events)
    /\ opsLeft' = opsLeft - 1
    /\ last' = NoStep
    /\ UNCHANGED <<localVars, session_people, movie_proposals, proposal_comments,
                   watched_movies, nextId, op>> /\ Quiet

RemotePresence ==
    /\ CanStart
    /\ \E row \in { r \in session_people : r.id \in RemotePresenceInputs } :
          LET new == [row EXCEPT !.is_present = ~row.is_present]
          IN  /\ session_people' = (session_people \ {row}) \cup {new}
              /\ Enqueue(<<PersonEvent("UPDATE", new)>>)
    /\ opsLeft' = opsLeft - 1
    /\ last' = NoStep
    /\ UNCHANGED <<localVars, movie_proposals, movie_ratings, proposal_comments,
                   watched_movies, nextId, op>> /\ Quiet

\* ---- failures: a persistence call may come back with an error; each
\* injected failure is paid from the budget of operations.
Outcomes == IF opsLeft > 0 THEN BOOLEAN ELSE {TRUE}

Pay(ok) == opsLeft' = IF ok THEN opsLeft ELSE opsLeft - 1

ProposalExists(proposalId) == \E p \in movie_proposals : p.id = proposalId

\* the record of a call made without a session: the requests it sent before
\* it returned
NoSessionStep(call, requests) ==
    [act |-> "noSession", call |-> call, requests |-> requests]

\* ---- updateRating(movieTitle, personId, rating)
\* There is no check of sessionId: without a session the select is sent
\* with session_id = null and comes back without a proposal.
\* from the call to the await of the upsert / delete: the select has resolved
updateRating_select ==
    /\ op.type = "idle" /\ CanStart
    /\ \E i \in 1..Len(movieRatings), j \in 1..Len(people), input \in RatingInputs :
          LET movieTitle == movieRatings[i].movieTitle
              matching == IF NoSessionLoaded THEN {}
                          ELSE { p \in movie_proposals : p.movie_title = movieTitle }
          IN  /\ people[j].id = input.personId
              /\ IF matching = {} THEN op' = Idle
                 ELSE \E proposals \in Orderings(matching) :
                        op' = [type |-> "updateRating", movieTitle |-> movieTitle,
                               personId |-> input.personId, rating |-> input.rating,
                               proposalId |-> proposals[1].id]
    /\ opsLeft' = opsLeft - 1
    /\ last' = IF NoSessionLoaded THEN NoSessionStep("updateRating", 1) ELSE NoStep
    /\ UNCHANGED <<localVars, dbVars, feed>> /\ Quiet

\* from the resolution of the upsert / delete to the end: the error of the
\* call is not read
updateRating_write ==
    /\ op.type = "updateRating"
    /\ \E ok \in Outcomes, full \in BOOLEAN :
          LET w == IF op.rating = 0 THEN DeleteRating(op.proposalId, op.personId, full)
                   ELSE UpsertRating(op.proposalId, op.personId, op.rating)
              done == ok /\ (op.rating = 0 \/ ProposalExists(op.proposalId))
          IN  /\ (full \/ (done /\ op.rating = 0 /\ w.events # <<>>))
              /\ movie_ratings' = IF done THEN w.ratings ELSE movie_ratings
              /\ Enqueue(IF done THEN w.events ELSE <<>>)
              /\ Pay(ok)
              /\ last' = [act |-> "updateRating", movieTitle |-> op.movieTitle,
                          personId |-> op.personId, rating |-> op.rating,
                          proposalId |-> op.proposalId, ok |-> done,
                          held |-> { movieRatings[i].ratings[op.personId] :
                                       i \in { k \in 1..Len(movieRatings) :
                                           /\ movieRatings[k].movieTitle = op.movieTitle
                                           /\ op.personId \in DOMAIN movieRatings[k].ratings } }]
    /\ movieRatings' = MapSeq(movieRatings, LAMBDA movie :
          IF movie.movieTitle # op.movieTitle THEN movie
          ELSE IF op.rating = 0
               THEN [movie EXCEPT !.ratings = WithoutRating(@, op.personId)]
               ELSE [movie EXCEPT !.ratings = WithRating(@, op.personId, op.rating)])
    /\ shouldSort' = FALSE
    /\ op' = Idle
    /\ UNCHANGED <<people, selectedPersonId, session_people, movie_proposals,
                   proposal_comments, watched_movies, nextId>> /\ Quiet

\* ---- updatePerson(updatedPerson), with the inputs PersonCard builds
PersonInputs(person) ==
    {[person EXCEPT !.isPresent = ~@]}
    \cup (IF Len(person.movies) < MaxMovies /\ person.id \in Proposers
          THEN { [person EXCEPT !.movies = Append(@, t)] : t \in Catalogue } ELSE {})
    \cup { [person EXCEPT !.movies = [k \in 1..(Len(@) - 1) |->
                                        IF k < i THEN @[k] ELSE @[k + 1]]] :
             i \in IF person.id \in Proposers THEN 1..Len(person.movies) ELSE {} }

\* mutant: the roster waits for the persistence call
OptimisticRoster_Unchanged(updatedPerson) == people

\* setPeople(prev => prev.map(p => p.id === updatedPerson.id ? updatedPerson : p))

OptimisticRoster(updatedPerson) ==
    MapSeq(people, LAMBDA p : IF p.id = updatedPerson.id THEN updatedPerson ELSE p)

PersonOp(pc, person, originalPerson, removeIds, toRemove, toAdd, results, pending) ==
    [type |-> "updatePerson", pc |-> pc, person |-> person,
     originalPerson |-> originalPerson, removeIds |-> removeIds, toRemove |-> toRemove,
     toAdd |-> toAdd, results |-> results, pending |-> pending]

\* mutant: the snapshot is read after the optimistic update
originalPerson_AfterUpdate(updatedPerson) == updatedPerson

\* const originalPerson = people.find(p => p.id === updatedPerson.id)
originalPerson(updatedPerson) ==
    LET first == CHOOSE k \in 1..Len(people) : people[k].id = updatedPerson.id
                            /\ \A l \in 1..(k - 1) : people[l].id # updatedPerson.id
    IN  people[first]

\* from the call to the await of the presence update: the optimistic update
updatePerson ==
    /\ op.type = "idle" /\ CanStart
    /\ \E i \in 1..Len(people) : \E updatedPerson \in PersonInputs(people[i]) :
          IF NoSessionLoaded
          THEN /\ last' = NoSessionStep("updatePerson", 0)
               /\ UNCHANGED <<people, op>>
          ELSE /\ people' = OptimisticRoster(updatedPerson)
               /\ op' = PersonOp("update", updatedPerson, originalPerson(updatedPerson),
                                 {}, {}, <<>>, <<>>, 0)
               /\ last' = [act |-> "updatePerson", personId |-> updatedPerson.id,
                           isPresent |-> updatedPerson.isPresent]
    /\ opsLeft' = opsLeft - 1
    /\ UNCHANGED <<movieRatings, selectedPersonId, shouldSort, dbVars, feed>> /\ Quiet

\* the presence update has resolved: on an error the rollback, otherwise on
\* into updatePersonMovies up to the await of its select
updatePerson_update ==
    /\ op.type = "updatePerson" /\ op.pc = "update"
    /\ \E ok \in Outcomes :
          /\ Pay(ok)
          /\ IF ok
             THEN LET rows == { r \in session_people : r.id = op.person.id }
                      new == { [r EXCEPT !.is_present = op.person.isPresent] : r \in rows }
                  IN  /\ session_people' = (session_people \ rows) \cup new
                      /\ Enqueue([k \in 1..Cardinality(new) |->
                                     PersonEvent("UPDATE", SetToSeq(new)[k])])
                      /\ op' = [op EXCEPT !.pc = "select"]
                      /\ UNCHANGED people
             ELSE /\ people' = MapSeq(people, LAMBDA p :
                        IF p.id = op.person.id THEN op.originalPerson ELSE p)
                  /\ op' = Idle
                  /\ UNCHANGED <<session_people, feed>>
          /\ last' = IF ok THEN NoStep
                     ELSE [act |-> "rollback", personId |-> op.person.id,
                           optimistic |-> op.person, snapshot |-> op.originalPerson]
    /\ UNCHANGED <<movieRatings, selectedPersonId, shouldSort, movie_proposals,
                   movie_ratings, proposal_comments, watched_movies, nextId>> /\ Quiet

\* "Add new proposals" up to the await of Promise.allSettled: the optimistic
\* entries, the proposer rated DefaultRating
BeginAdd(current, toAdd) ==
    IF toAdd = <<>>
    THEN /\ movieRatings' = current
         /\ op' = Idle
    ELSE /\ movieRatings' = current \o MapSeq(toAdd, LAMBDA movieTitle :
               Movie(movieTitle, op.person.id, 0,
                     WithRating(NoRatings, op.person.id, DefaultRating)))
         /\ op' = PersonOp("invoke", op.person, op.originalPerson, {}, {}, toAdd, <<>>, 0)

\* the select of the person's proposals has resolved
updatePersonMovies_select ==
    /\ op.type = "updatePerson" /\ op.pc = "select"
    /\ \E currentProposals \in
             Orderings({ p \in movie_proposals : p.person_id = op.person.id }) :
          LET currentMovies == MapSeq(currentProposals, LAMBDA p : p.movie_title)
              moviesToAdd == SelectSeq(op.person.movies, LAMBDA m : ~Contains(currentMovies, m))
              moviesToRemove == { currentMovies[k] : k \in { k \in 1..Len(currentMovies) :
                                      ~Contains(op.person.movies, currentMovies[k]) } }
              proposalIds == { currentProposals[k].id : k \in { k \in 1..Len(currentProposals) :
                                      currentProposals[k].movie_title \in moviesToRemove } }
          IN  IF moviesToRemove # {}
              THEN /\ op' = PersonOp("delete", op.person, op.originalPerson, proposalIds,
                                     moviesToRemove, moviesToAdd, <<>>, 0)
                   /\ UNCHANGED movieRatings
              ELSE BeginAdd(movieRatings, moviesToAdd)
    /\ last' = NoStep
    /\ UNCHANGED <<people, selectedPersonId, shouldSort, dbVars, feed, opsLeft>> /\ Quiet

\* the delete of the removed proposals has resolved
updatePersonMovies_delete ==
    /\ op.type = "updatePerson" /\ op.pc = "delete"
    /\ \E full \in BOOLEAN :
          LET w == DeleteProposals(op.removeIds, full)
          IN  /\ (full \/ w.ratings # movie_ratings)
              /\ movie_proposals' = w.proposals
              /\ movie_ratings' = w.ratings
              /\ proposal_comments' = w.comments
              /\ Enqueue(w.events)
    /\ BeginAdd(SelectSeq(movieRatings, LAMBDA m : m.movieTitle \notin op.toRemove), op.toAdd)
    /\ last' = NoStep
    /\ UNCHANGED <<people, selectedPersonId, shouldSort, session_people, watched_movies,
                   nextId, opsLeft>> /\ Quiet

\* the setMovieRatings after Promise.allSettled: a fulfilled result stamps the
\* entries with its title, a rejected one removes them
RECURSIVE ApplyResults(_, _)
ApplyResults(results, ratings) ==
    IF results = <<>> THEN ratings
    ELSE LET result == Head(results)
             next == IF result.fulfilled
                     THEN MapSeq(ratings, LAMBDA m :
                              IF m.movieTitle = result.movieTitle
                              THEN [m EXCEPT !.proposalId = result.proposalId,
                                             !.proposerId = op.person.id]
                              ELSE m)
                     ELSE SelectSeq(ratings, LAMBDA m : m.movieTitle # result.movieTitle)
         IN  ApplyResults(Tail(results), next)

\* One promise of moviesToAdd.map has settled.  The invocations are taken in
\* the order of moviesToAdd: they write rows of different titles.
Settled(result) ==
    LET results == Append(op.results, result)
        rest == Tail(op.toAdd)
    IN  IF rest = <<>>
        THEN /\ movieRatings' = ApplyResults(results, movieRatings)
             /\ op' = Idle
        ELSE /\ op' = PersonOp("invoke", op.person, op.originalPerson, {}, {}, rest, results, 0)
             /\ UNCHANGED movieRatings

\* functions.invoke('propose-movie-with-details') has resolved: the edge
\* function looked for a proposal of this person and title and inserted one
\* when it found none (or, .single(), more than one)
updatePersonMovies_invoke ==
    /\ op.type = "updatePerson" /\ op.pc = "invoke"
    /\ \E ok \in Outcomes :
          LET movieTitle == Head(op.toAdd)
              existing == { p \in movie_proposals :
                              p.person_id = op.person.id /\ p.movie_title = movieTitle }
              newProposal == [id |-> nextId, person_id |-> op.person.id,
                              movie_title |-> movieTitle]
          IN  /\ Pay(ok)
              /\ IF ~ok
                 THEN /\ Settled([movieTitle |-> movieTitle, fulfilled |-> FALSE, proposalId |-> 0])
                      /\ UNCHANGED <<movie_proposals, nextId, feed>>
                 ELSE IF Cardinality(existing) = 1
                 THEN /\ Settled([movieTitle |-> movieTitle, fulfilled |-> TRUE,
                                  proposalId |-> (CHOOSE p \in existing : TRUE).id])
                      /\ UNCHANGED <<movie_proposals, nextId, feed>>
                 ELSE /\ movie_proposals' = movie_proposals \cup {newProposal}
                      /\ nextId' = nextId + 1
                      /\ Enqueue(<<ProposalEvent("INSERT", newProposal)>>)
                      /\ op' = [op EXCEPT !.pc = "upsert", !.pending = nextId]
                      /\ UNCHANGED movieRatings
              /\ last' = IF ok THEN NoStep
                         ELSE [act |-> "invoke", movieTitle |-> movieTitle,
                               personId |-> op.person.id, ok |-> FALSE]
    /\ UNCHANGED <<people, selectedPersonId, shouldSort, session_people, movie_ratings,
                   proposal_comments, watched_movies>> /\ Quiet

\* the upsert of the proposer's default rating has resolved; its error is
\* not read, the promise is fulfilled either way
updatePersonMovies_upsert ==
    /\ op.type = "updatePerson" /\ op.pc = "upsert"
    /\ \E ok \in Outcomes :
          LET w == UpsertRating(op.pending, op.person.id, DefaultRating)
              done == ok /\ ProposalExists(op.pending)
          IN  /\ movie_ratings' = IF done THEN w.ratings ELSE movie_ratings
              /\ Enqueue(IF done THEN w.events ELSE <<>>)
              /\ Pay(ok)
              /\ last' = [act |-> "propose", movieTitle |-> Head(op.toAdd),
                          personId |-> op.person.id, proposalId |-> op.pending,
                          ok |-> done]
    /\ Settled([movieTitle |-> Head(op.toAdd), fulfilled |-> TRUE, proposalId |-> op.pending])
    /\ UNCHANGED <<people, selectedPersonId, shouldSort, session_people, movie_proposals,
                   proposal_comments, watched_movies, nextId>> /\ Quiet

\* ---- markMovieAsWatched(movieTitle)
WatchedOp(pc, movieTitle, proposal, proposedBy, watchedId, failed) ==
    [type |-> "markMovieAsWatched", pc |-> pc, movieTitle |-> movieTitle,
     proposal |-> proposal, proposedBy |-> proposedBy, watchedId |-> watchedId,
     failed |-> failed]

Unknown == "Unknown"

\* history of the promotion in flight: the step just taken, the steps that
\* came back with an error, the rating rows of the proposal before the step
WatchedStep(step, ok) ==
    [act |-> "markMovieAsWatched", step |-> step, ok |-> ok, movieTitle |-> op.movieTitle,
     proposalId |-> op.proposal.id, watchedId |-> op.watchedId,
     failed |-> op.failed \cup (IF ok THEN {} ELSE {step}),
     ratingsBefore |-> Cardinality({ r \in movie_ratings : r.proposal_id = op.proposal.id })]

\* window.confirm(message): the choice made in the dialog
windowConfirm_Always(answer) == TRUE
windowConfirm(answer) == answer

\* from the call to the await of the proposer's name: the dialog is answered
\* and, unless it was declined, the select of the proposal, .single(), has
\* resolved
markMovieAsWatched_proposal ==
    /\ op.type = "idle" /\ CanStart
    /\ \E i \in 1..Len(movieRatings), ok \in BOOLEAN, answer \in BOOLEAN :
          LET movieTitle == movieRatings[i].movieTitle
              rows == { p \in movie_proposals : p.movie_title = movieTitle }
              found == ok /\ Cardinality(rows) = 1
              proposal == IF found THEN CHOOSE p \in rows : TRUE
                          ELSE [id |-> 0, person_id |-> NoPerson, movie_title |-> movieTitle]
          IN  IF NoSessionLoaded
              THEN /\ ok /\ answer
                   /\ op' = Idle
                   /\ last' = NoSessionStep("markMovieAsWatched", 0)
              ELSE IF ~windowConfirm(answer)
              THEN /\ ok
                   /\ op' = Idle
                   /\ last' = [act |-> "markMovieAsWatched", step |-> "declined", ok |-> FALSE,
                               movieTitle |-> movieTitle, proposalId |-> 0, watchedId |-> 0,
                               failed |-> {}, ratingsBefore |-> 0, confirmed |-> answer]
              ELSE /\ op' = IF found THEN WatchedOp("proposer", movieTitle, proposal, Unknown, 0, {})
                             ELSE Idle
                   /\ last' = [act |-> "markMovieAsWatched", step |-> "proposal", ok |-> found,
                               movieTitle |-> movieTitle, proposalId |-> proposal.id,
                               watchedId |-> 0,
                               failed |-> IF found THEN {} ELSE {"proposal"},
                               ratingsBefore |-> Cardinality({ r \in movie_ratings :
                                                                 r.proposal_id = proposal.id }),
                               confirmed |-> answer]
    /\ opsLeft' = opsLeft - 1
    /\ UNCHANGED <<localVars, dbVars, feed>> /\ Quiet

\* the select of the proposer's name has resolved; its error is not read
markMovieAsWatched_proposer ==
    /\ op.type = "markMovieAsWatched" /\ op.pc = "proposer"
    /\ \E ok \in Outcomes :
          LET found == ok /\ \E r \in session_people : r.id = op.proposal.person_id
          IN  /\ Pay(ok)
              /\ last' = WatchedStep("proposer", ok)
              /\ op' = [op EXCEPT !.pc = "insert",
                                  !.proposedBy = IF found THEN op.proposal.person_id ELSE Unknown,
                                  !.failed = last'.failed]
    /\ UNCHANGED <<localVars, dbVars, feed>> /\ Quiet

\* the insert into watched_movies has resolved; its error is thrown
markMovieAsWatched_insert ==
    /\ op.type = "markMovieAsWatched" /\ op.pc = "insert"
    /\ \E ok \in Outcomes :
          /\ Pay(ok)
          /\ last' = WatchedStep("insert", ok)
          /\ IF ok
             THEN /\ watched_movies' = watched_movies \cup
                        {[id |-> nextId, movie_title |-> op.movieTitle,
                          proposed_by |-> op.proposedBy]}
                  /\ nextId' = nextId + 1
                  /\ op' = [op EXCEPT !.pc = "repoint", !.watchedId = nextId]
             ELSE /\ op' = Idle
                  /\ UNCHANGED <<watched_movies, nextId>>
    /\ UNCHANGED <<localVars, session_people, movie_proposals, movie_ratings,
                   proposal_comments, feed>> /\ Quiet

\* update({watched_movie_id}).eq('proposal_id', proposal.id) has resolved;
\* its error is not read.  proposal_id is left as it is.
markMovieAsWatched_repoint ==
    /\ op.type = "markMovieAsWatched" /\ op.pc = "repoint"
    /\ \E ok \in Outcomes :
          LET rows == { r \in movie_ratings : r.proposal_id = op.proposal.id }
              new == { [r EXCEPT !.watched_movie_id = op.watchedId] : r \in rows }
          IN  /\ Pay(ok)
              /\ last' = WatchedStep("repoint", ok)
              /\ movie_ratings' = IF ok THEN (movie_ratings \ rows) \cup new ELSE movie_ratings
              /\ Enqueue(IF ok THEN [k \in 1..Cardinality(new) |->
                                        RatingEvent("UPDATE", SetToSeq(new)[k])]
                          ELSE <<>>)
              /\ op' = [op EXCEPT !.pc = "comments", !.failed = last'.failed]
    /\ UNCHANGED <<localVars, session_people, movie_proposals, proposal_comments,
                   watched_movies, nextId>> /\ Quiet

\* the delete of the proposal's comments has resolved; its error is not read
markMovieAsWatched_comments ==
    /\ op.type = "markMovieAsWatched" /\ op.pc = "comments"
    /\ \E ok \in Outcomes :
          /\ Pay(ok)
          /\ last' = WatchedStep("comments", ok)
          /\ proposal_comments' = IF ok THEN proposal_comments \ {op.proposal.id}
                                  ELSE proposal_comments
          /\ op' = [op EXCEPT !.pc = "delete", !.failed = last'.failed]
    /\ UNCHANGED <<localVars, session_people, movie_proposals, movie_ratings,
                   watched_movies, nextId, feed>> /\ Quiet

\* the delete of the proposal has resolved; its error is not read.  Then the
\* local removal, by title.
markMovieAsWatched_delete ==
    /\ op.type = "markMovieAsWatched" /\ op.pc = "delete"
    /\ \E ok \in Outcomes, full \in BOOLEAN :
          LET w == DeleteProposals({op.proposal.id}, full)
          IN  /\ (full \/ (ok /\ w.ratings # movie_ratings))
              /\ Pay(ok)
              /\ last' = WatchedStep("delete", ok)
              /\ movie_proposals' = IF ok THEN w.proposals ELSE movie_proposals
              /\ movie_ratings' = IF ok THEN w.ratings ELSE movie_ratings
              /\ proposal_comments' = IF ok THEN w.comments ELSE proposal_comments
              /\ Enqueue(IF ok THEN w.events ELSE <<>>)
    /\ movieRatings' = SelectSeq(movieRatings, LAMBDA movie : movie.movieTitle # op.movieTitle)
    /\ people' = MapSeq(people, LAMBDA person :
          [person EXCEPT !.movies = SelectSeq(@, LAMBDA m : m # op.movieTitle)])
    /\ op' = Idle
    /\ UNCHANGED <<selectedPersonId, shouldSort, session_people, watched_movies, nextId>> /\ Quiet

\* ---- deletePerson(id)
DeletePersons == {"A", "B"}

\* from the call to the await of the delete: the person is looked up in
\* people and the dialog is answered
deletePerson ==
    /\ op.type = "idle" /\ CanStart
    /\ \E id \in DeletePersons, answer \in BOOLEAN :
          LET found == \E i \in 1..Len(people) : people[i].id = id
          IN  /\ (found \/ answer)
              /\ op' = IF found /\ windowConfirm(answer)
                        THEN [type |-> "deletePerson", id |-> id] ELSE Idle
              /\ last' = [act |-> "deletePerson", step |-> "call", id |-> id,
                          asked |-> found, confirmed |-> answer, ok |-> TRUE]
    /\ opsLeft' = opsLeft - 1
    /\ UNCHANGED <<localVars, dbVars, feed>> /\ Quiet

\* mutant: the proposals of the removed person stay in memory
WithoutProposalsOf_Kept(ratings, id) == ratings

\* setMovieRatings(prev => prev.filter(m => m.proposerId !== id))
WithoutProposalsOf(ratings, id) == SelectSeq(ratings, LAMBDA m : m.proposerId # id)

\* the delete of the session_people row has resolved.  Every foreign key on
\* session_people(id) is ON DELETE CASCADE: the person's proposals go, with
\* their ratings and comments, and so do the person's ratings of the others.
deletePerson_delete ==
    /\ op.type = "deletePerson"
    /\ \E ok \in Outcomes, full \in BOOLEAN :
          LET rows == { r \in session_people : r.id = op.id }
              ids == { p.id : p \in { p \in movie_proposals : p.person_id = op.id } }
              w == DeleteProposals(ids, full)
              own == { r \in w.ratings : r.person_id = op.id }
          IN  /\ Pay(ok)
              /\ (ok \/ full)
              /\ IF ok
                 THEN /\ session_people' = session_people \ rows
                      /\ movie_proposals' = w.proposals
                      /\ movie_ratings' = w.ratings \ own
                      /\ proposal_comments' = w.comments
                      /\ Enqueue(w.events
                                 \o [i \in 1..Cardinality(own) |->
                                        RatingDeleteEvent(SetToSeq(own)[i], full)]
                                 \o [i \in 1..Cardinality(rows) |->
                                        PersonEvent("DELETE", SetToSeq(rows)[i])])
                      /\ people' = SelectSeq(people, LAMBDA p : p.id # op.id)
                      /\ movieRatings' = WithoutProposalsOf(movieRatings, op.id)
                 ELSE UNCHANGED <<session_people, movie_proposals, movie_ratings,
                                  proposal_comments, feed, people, movieRatings>>
              /\ last' = [act |-> "deletePerson", step |-> "delete", id |-> op.id,
                          asked |-> TRUE, confirmed |-> TRUE, ok |-> ok]
    /\ op' = Idle
    /\ UNCHANGED <<selectedPersonId, shouldSort, watched_movies, nextId>> /\ Quiet

\* ---- the store: the hook is constructed on a session that other tabs may
\* have filled already; its first act is loadSessionData
Person(id, isPresent) == [id |-> id, is_present |-> isPresent]

Seeded ==
    /\ movie_proposals = {[id |-> 1, person_id |-> "A", movie_title |-> 1]}
    /\ movie_ratings = {[proposal_id |-> 1, person_id |-> "A", rating |-> DefaultRating,
                         watched_movie_id |-> 0]}
    /\ proposal_comments = {1}
    /\ nextId = 2

Init ==
    /\ people = <<>> /\ movieRatings = <<>>
    /\ selectedPersonId = NoPerson /\ shouldSort = TRUE
    /\ session_people = {Person("A", TRUE), Person("B", TRUE), Person("C", FALSE)}
    /\ \/ Seeded
       \/ movie_proposals = {} /\ movie_ratings = {} /\ proposal_comments = {} /\ nextId = 1
    /\ watched_movies = {}
    /\ op = Loading /\ feed = <<>> /\ opsLeft = MaxOps /\ last = NoStep
    /\ sortCall = NotCalled /\ view = NotCalled
    /\ NoExtras

Next ==
    \/ fetchSessionPeople
    \/ fetchProposalsWithRatingsAndComments
    \/ OnRatingsChange
    \/ OnPeopleChange
    \/ OnProposalsChange
    \/ AttachProposalIds
    \/ RemoteRating
    \/ RemotePresence
    \/ updateRating_select
    \/ updateRating_write
    \/ updatePerson
    \/ updatePerson_update
    \/ updatePersonMovies_select
    \/ updatePersonMovies_delete
    \/ updatePersonMovies_invoke
    \/ updatePersonMovies_upsert

Spec == Init /\ [][Next]_vars

\* ---- the promotion of a proposal to a watched movie, on a session that
\* holds one proposal with its ratings and a comment
WatchedRatings ==
    { {[proposal_id |-> 1, person_id |-> "A", rating |-> DefaultRating, watched_movie_id |-> 0]}
        \cup extra :
      extra \in SUBSET {[proposal_id |-> 1, person_id |-> "B", rating |-> 3,
                         watched_movie_id |-> 0]} }

InitWatched ==
    /\ people = <<>> /\ movieRatings = <<>>
    /\ selectedPersonId = NoPerson /\ shouldSort = TRUE
    /\ session_people = {Person("A", TRUE), Person("B", TRUE), Person("C", FALSE)}
    /\ movie_proposals = {[id |-> 1, person_id |-> "A", movie_title |-> 1]}
    /\ movie_ratings \in WatchedRatings
    /\ proposal_comments \in {{}, {1}}
    /\ nextId = 2
    /\ watched_movies = {}
    /\ op = Loading /\ feed = <<>> /\ opsLeft = MaxOps /\ last = NoStep
    /\ sortCall = NotCalled /\ view = NotCalled
    /\ NoExtras

NextWatched ==
    \/ fetchSessionPeople
    \/ fetchProposalsWithRatingsAndComments
    \/ OnRatingsChange
    \/ OnProposalsChange
    \/ RemoteRating
    \/ markMovieAsWatched_proposal
    \/ markMovieAsWatched_proposer
    \/ markMovieAsWatched_insert
    \/ markMovieAsWatched_repoint
    \/ markMovieAsWatched_comments
    \/ markMovieAsWatched_delete

SpecWatched == InitWatched /\ [][NextWatched]_vars

\* ---- the two operations that ask before they act, on the same session
\* dialogs, remote writes and injected failures per run
MaxDialogs == 3

InitConfirm ==
    /\ people = <<>> /\ movieRatings = <<>>
    /\ selectedPersonId = NoPerson /\ shouldSort = TRUE
    /\ session_people = {Person("A", TRUE), Person("B", TRUE), Person("C", FALSE)}
    /\ movie_proposals = {[id |-> 1, person_id |-> "A", movie_title |-> 1]}
    /\ movie_ratings \in WatchedRatings
    /\ proposal_comments \in {{}, {1}}
    /\ nextId = 2
    /\ watched_movies = {}
    /\ op = Loading /\ feed = <<>> /\ opsLeft = MaxDialogs /\ last = NoStep
    /\ sortCall = NotCalled /\ view = NotCalled
    /\ NoExtras

NextConfirm ==
    \/ fetchSessionPeople
    \/ fetchProposalsWithRatingsAndComments
    \/ OnRatingsChange
    \/ OnPeopleChange
    \/ OnProposalsChange
    \/ RemoteRating
    \/ markMovieAsWatched_proposal
    \/ markMovieAsWatched_proposer
    \/ markMovieAsWatched_insert
    \/ markMovieAsWatched_repoint
    \/ markMovieAsWatched_comments
    \/ markMovieAsWatched_delete
    \/ deletePerson
    \/ deletePerson_delete

SpecConfirm == InitConfirm /\ [][NextConfirm]_vars

\* ======================================================================
\* Properties
\* ======================================================================
Occurrences(s, x) == Cardinality({i \in 1..Len(s) : s[i] = x})

IsPermutationOf(out, in) ==
    /\ Len(out) = Len(in)
    /\ \A i \in 1..Len(in) : Occurrences(out, in[i]) = Occurrences(in, in[i])

TitlesAscending(s) ==
    \A i, j \in 1..Len(s) : i < j => s[i].movieTitle <= s[j].movieTitle

\* unrated-by-personId first, rated last, each group by ascending title
UnratedFirst(out, personId) ==
    \A i, j \in 1..Len(out) : i < j =>
        /\ ~(IsRated(out[i], personId) /\ ~IsRated(out[j], personId))
        /\ (IsRated(out[i], personId) = IsRated(out[j], personId)
              => out[i].movieTitle <= out[j].movieTitle)

\* C5: for every proposal list and every non-empty selected person id,
\* sortMovieRatings, and getSortedMovies while sorting is not suppressed,
\* return a permutation of the input in which every proposal the person has
\* not rated > 0 precedes every proposal the person has rated > 0, and each
\* of the two groups is in ascending title order.
C5_UnratedFirstOrder ==
    /\ (sortCall.called /\ sortCall.personId # NoPerson) =>
          /\ IsPermutationOf(sortCall.ret, sortCall.input)
          /\ UnratedFirst(sortCall.ret, sortCall.personId)
    /\ (shouldSort /\ selectedPersonId # NoPerson) =>
          LET sorted == getSortedMovies
          IN  /\ IsPermutationOf(sorted, movieRatings)
              /\ UnratedFirst(sorted, selectedPersonId)

C5_Witness ==
    /\ sortCall.called /\ sortCall.personId = "A"
    /\ Len(sortCall.input) = 3
    /\ IsRated(sortCall.input[1], "A") /\ ~IsRated(sortCall.input[2], "A")
    /\ ~IsRated(sortCall.input[3], "A")
    /\ sortCall.input[2].movieTitle > sortCall.input[3].movieTitle
    /\ sortCall.ret # sortCall.input
    /\ shouldSort /\ selectedPersonId = "A"

\* C6: with no person selected (empty person id) sortMovieRatings returns the
\* whole list in ascending title order, whatever the ratings are.
C6_AlphabeticalWhenNoPerson ==
    (sortCall.called /\ sortCall.personId = NoPerson) =>
        /\ IsPermutationOf(sortCall.ret, sortCall.input)
        /\ TitlesAscending(sortCall.ret)

C6_Witness ==
    /\ sortCall.called /\ sortCall.personId = NoPerson
    /\ Len(sortCall.input) = 3
    /\ ~TitlesAscending(sortCall.input)
    /\ \E i \in 1..3 : IsRated(sortCall.input[i], "A")
    /\ \E i \in 1..3 : ~IsRated(sortCall.input[i], "A")

\* C7: sortMovieRatings is idempotent, sorting its own result again returns
\* that result, and it leaves the array it was given as it was.
C7_IdempotentAndNonMutating ==
    sortCall.called =>
        /\ sortMovieRatings(sortCall.ret, sortCall.personId).ret = sortCall.ret
        /\ sortCall.arg = sortCall.input

C7_Witness ==
    /\ sortCall.called
    /\ Len(sortCall.input) = 3
    /\ sortCall.ret # sortCall.input
    /\ sortCall.arg = sortCall.input

\* ---- the results ranking
IsPresentId(id) == \E k \in 1..Len(people) : people[k].id = id /\ people[k].isPresent

\* the people who are present and hold a rating > 0 on the movie
PositivePresentRaters(movie) ==
    { q \in DOMAIN movie.ratings : movie.ratings[q] > 0 /\ IsPresentId(q) }

RECURSIVE SumOver(_, _)
SumOver(ratings, S) ==
    IF S = {} THEN 0
    ELSE LET q == CHOOSE x \in S : TRUE IN ratings[q] + SumOver(ratings, S \ {q})

\* stats.averageRating = sum / n, or 0 when n = 0; stats.totalRatings = n
StatsAre(stats, sum, n) ==
    /\ stats.totalRatings = n
    /\ IF n = 0 THEN stats.averageRating.num = 0
       ELSE stats.averageRating.num * n = sum * stats.averageRating.den

\* C1: rankedMovies never contains a proposal whose proposer is not
\* currently present, and never one whose only positive rating from a present
\* person is the proposer's own.
C1_RankedExcludes ==
    LET ranked == rankedMovies
    IN  \A i \in 1..Len(ranked) :
            /\ IsPresentId(ranked[i].proposerId)
            /\ PositivePresentRaters(ranked[i]) # {ranked[i].proposerId}

C1_Witness ==
    /\ view.called
    /\ Len(movieRatings) = 2 /\ Len(view.ranked) = 0
    /\ movieRatings[1].proposerId = "A" /\ IsPresentId("A")
    /\ PositivePresentRaters(movieRatings[1]) = {"A"}
    /\ "C" \in DOMAIN movieRatings[1].ratings
    /\ movieRatings[2].proposerId = NoPerson
    /\ PositivePresentRaters(movieRatings[2]) = {"A", "B"}

\* C2: the averageRating and totalRatings of every proposal, as rankedMovies
\* and MovieCard compute them, use exactly the ratings > 0 of present people:
\* their number, and their sum divided by that number (0 when there are none).
C2_StatsFromPresentPositive ==
    /\ \A i \in 1..Len(movieRatings) :
          LET movie == movieRatings[i]
              S == PositivePresentRaters(movie)
          IN  /\ StatsAre(WithStats(movie), SumOver(movie.ratings, S), Cardinality(S))
              /\ StatsAre(MovieCardStats(movie), SumOver(movie.ratings, S), Cardinality(S))
    /\ LET ranked == rankedMovies
       IN  \A i \in 1..Len(ranked) :
              LET S == PositivePresentRaters(ranked[i])
              IN  StatsAre(ranked[i], SumOver(ranked[i].ratings, S), Cardinality(S))

C2_Witness ==
    /\ view.called /\ Len(view.ranked) = 1
    /\ view.ranked[1].ratings = [A |-> 5, B |-> 2, C |-> 1]
    /\ ~IsPresentId("C")
    /\ view.ranked[1].averageRating = [num |-> 7, den |-> 2]
    /\ view.ranked[1].totalRatings = 2
    /\ \E i \in 1..Len(movieRatings) :
          /\ 0 \in {movieRatings[i].ratings[q] : q \in DOMAIN movieRatings[i].ratings}
          /\ view.cards[i].totalRatings = 1

\* ---------------------------------------------------------------- the store
\* the entry of `movie` in the ranking, if it has one
RankedEntries(movie) ==
    LET ranked == rankedMovies
    IN  { k \in 1..Len(ranked) :
            /\ ranked[k].movieTitle = movie.movieTitle
            /\ ranked[k].proposalId = movie.proposalId
            /\ ranked[k].proposerId = movie.proposerId
            /\ ranked[k].ratings = movie.ratings }

ScenarioRoster == IsPresentId("A") /\ IsPresentId("B") /\ ~IsPresentId("C")

\* C3: with A and B present and C absent, a movie proposed by A that holds
\* A's automatic 5, B's 3 and C's 1 is in rankedMovies with averageRating 4
\* and totalRatings 2; and right after B's rating is set to 0, the movie,
\* left with A's own 5 and absent C's 1, is not in rankedMovies.
C3_ScenarioRanking ==
    /\ ScenarioRoster =>
          \A i \in 1..Len(movieRatings) :
             LET movie == movieRatings[i]
             IN  (movie.proposerId = "A" /\ movie.ratings = [A |-> 5, B |-> 3, C |-> 1]) =>
                     LET ranked == rankedMovies
                     IN  /\ RankedEntries(movie) # {}
                         /\ \A k \in RankedEntries(movie) :
                               /\ ranked[k].averageRating = [num |-> 4, den |-> 1]
                               /\ ranked[k].totalRatings = 2
    /\ (/\ last.act = "updateRating" /\ last.personId = "B" /\ last.rating = 0
        /\ IsPresentId("A") /\ ~IsPresentId("C")) =>
          \A i \in 1..Len(movieRatings) :
             LET movie == movieRatings[i]
             IN  (/\ movie.movieTitle = last.movieTitle
                  /\ movie.proposerId = "A"
                  /\ movie.ratings = [A |-> 5, C |-> 1]) => RankedEntries(movie) = {}

C3_Witness ==
    /\ last.act = "updateRating" /\ last.personId = "B" /\ last.rating = 0
    /\ last.ok /\ last.held = {3}
    /\ ScenarioRoster
    /\ Len(movieRatings) = 1
    /\ movieRatings[1].proposerId = "A"
    /\ movieRatings[1].proposalId = last.proposalId
    /\ movieRatings[1].ratings = [A |-> 5, C |-> 1]
    /\ rankedMovies = <<>>

\* C4: in the state right after updatePerson was called with isPresent =
\* false for a person (the optimistic update, the persistence call still
\* pending), and in the state right after a session_people UPDATE event that
\* sets a person absent was handled, rankedMovies holds no proposal of that
\* person.
C4_AbsentProposerLeavesRanking ==
    (last.act \in {"updatePerson", "peopleUpdate"} /\ ~last.isPresent) =>
        LET ranked == rankedMovies
        IN  \A k \in 1..Len(ranked) : ranked[k].proposerId # last.personId

C4_Witness ==
    /\ last.act = "peopleUpdate" /\ last.personId = "A" /\ ~last.isPresent
    /\ IsPresentId("B")
    /\ \E i \in 1..Len(movieRatings) :
          /\ movieRatings[i].proposerId = "A"
          /\ movieRatings[i].proposalId # 0
          /\ "B" \in DOMAIN movieRatings[i].ratings
          /\ movieRatings[i].ratings["B"] = 3
    /\ rankedMovies = <<>>

\* C8: right after updateRating(title, person, 0) came back without an
\* error, persistence holds no rating row for the proposal the call resolved
\* and that person, and no local entry of that title holds a rating of that
\* person, whatever the person held before.
C8_ZeroIsNeverRated ==
    (last.act = "updateRating" /\ last.rating = 0 /\ last.ok) =>
        /\ RatingRow(last.proposalId, last.personId) = {}
        /\ \A i \in 1..Len(movieRatings) :
              (\/ movieRatings[i].movieTitle = last.movieTitle
               \/ movieRatings[i].proposalId = last.proposalId) =>
                  last.personId \notin DOMAIN movieRatings[i].ratings

C8_Witness ==
    /\ last.act = "updateRating" /\ last.rating = 0 /\ last.ok
    /\ last.held = {3}
    /\ \E i \in 1..Len(movieRatings) :
          /\ movieRatings[i].proposalId = last.proposalId
          /\ movieRatings[i].ratings = [A |-> 5]
    /\ \A r \in movie_ratings : r.person_id = "A"

\* C9: right after a promotion in which every step succeeded, the rating
\* rows the proposal had are all still there, each referencing the new
\* watched movie, and the proposal row and its comment rows are gone.
C9_PromotionKeepsRatings ==
    (/\ last.act = "markMovieAsWatched" /\ last.step = "delete"
     /\ last.failed = {}) =>
        /\ Cardinality({ r \in movie_ratings : r.watched_movie_id = last.watchedId })
              = last.ratingsBefore
        /\ ~ProposalExists(last.proposalId)
        /\ last.proposalId \notin proposal_comments

\* C10: the steps of markMovieAsWatched run in the order proposal, proposer,
\* insert, repoint, comments, delete; and once a step before the delete of
\* the proposal has failed, the proposal row is still in persistence and the
\* movie still in movieRatings.
WatchedOrder ==
    [proposal |-> "proposer", proposer |-> "insert", insert |-> "repoint",
     repoint |-> "comments", comments |-> "delete"]

C10_FailureKeepsProposal ==
    last.act = "markMovieAsWatched" =>
        /\ op.type = "markMovieAsWatched" => op.pc = WatchedOrder[last.step]
        /\ (last.proposalId # 0 /\ last.failed \ {"delete"} # {}) =>
              /\ ProposalExists(last.proposalId)
              /\ \E i \in 1..Len(movieRatings) : movieRatings[i].movieTitle = last.movieTitle

\* ======================================================================
\* The propose-movie-with-details edge function, called by any number of
\* tabs.  One action is one run of the function from one await to the next;
\* a persistence call takes effect in the step that resumes from it.
\* ======================================================================

\* requests served per run
MaxRequests == 3

\* A title as a request carries it: its text (a collation rank, Blank for
\* the empty text) and whether white space surrounds it.
Blank == 0
EdgeTitle(text, padded) == [text |-> text, padded |-> padded]
trim(title) == title.text

EdgeTitles == {EdgeTitle(1, FALSE), EdgeTitle(1, TRUE), EdgeTitle(Blank, TRUE)}
EdgePersons == {"A", "B"}

\* .eq('person_id', personId).eq('movie_title', text) on movie_proposals
ProposalsOf(personId, text) ==
    { p \in movie_proposals : p.person_id = personId /\ p.movie_title = text }

\* PostgREST's .single(): the row when exactly one matches, else an error
\* and data = null (here: the empty set)
single(rows) == IF Cardinality(rows) = 1 THEN rows ELSE {}

\* The response handed back, with the request it answers.  `existed` is
\* history: the ids of the rows of (person, title) when the request came in.
EdgeResponse(status, r, proposalId, created) ==
    [act |-> "edgeResponse", status |-> status, personId |-> r.personId,
     title |-> r.title, existed |-> r.existed, proposalId |-> proposalId,
     created |-> created]

EdgeQuiet ==
    UNCHANGED <<localVars, ctlVars, helperVars, favVars, detailedVars,
                cookieVars, star, realtime, detailsVars, session_people, movie_ratings,
                proposal_comments, watched_movies>>

\* serve, up to the existence query: validation, then the query is issued
serve(personId, title) ==
    /\ edge.next <= MaxRequests
    /\ LET r == [id |-> edge.next, personId |-> personId, title |-> title,
                 pc |-> "select",
                 existed |-> { p.id : p \in ProposalsOf(personId, trim(title)) }]
       IN  IF trim(title) = Blank
           THEN /\ edge' = [edge EXCEPT !.next = @ + 1]
                /\ last' = EdgeResponse(400, r, Null, FALSE)
           ELSE /\ edge' = [next |-> edge.next + 1, reqs |-> edge.reqs \cup {r}]
                /\ last' = NoStep
    /\ UNCHANGED <<movie_proposals, nextId>>
    /\ EdgeQuiet

\* serve, resumed from the existence query: answer with the existing id, or
\* go on to the details look-up and issue the insert
serve_select(r) ==
    /\ r \in edge.reqs /\ r.pc = "select"
    /\ LET existingProposal == single(ProposalsOf(r.personId, trim(r.title)))
       IN  IF existingProposal # {}
           THEN /\ edge' = [edge EXCEPT !.reqs = @ \ {r}]
                /\ last' = EdgeResponse(200, r,
                              (CHOOSE p \in existingProposal : TRUE).id, FALSE)
           ELSE /\ edge' = [edge EXCEPT
                              !.reqs = (@ \ {r}) \cup {[r EXCEPT !.pc = "insert"]}]
                /\ last' = NoStep
    /\ UNCHANGED <<movie_proposals, nextId>>
    /\ EdgeQuiet

\* serve, resumed from the insert: the table declares no uniqueness over
\* (session_id, person_id, movie_title), so the insert fails only when
\* persistence does
serve_insert(r, ok) ==
    /\ r \in edge.reqs /\ r.pc = "insert"
    /\ edge' = [edge EXCEPT !.reqs = @ \ {r}]
    /\ IF ok
       THEN /\ movie_proposals' = movie_proposals \cup
                    {[id |-> nextId, person_id |-> r.personId,
                      movie_title |-> trim(r.title)]}
            /\ nextId' = nextId + 1
            /\ last' = EdgeResponse(200, r, nextId, TRUE)
       ELSE /\ UNCHANGED <<movie_proposals, nextId>>
            /\ last' = EdgeResponse(500, r, Null, FALSE)
    /\ EdgeQuiet

InitPropose ==
    /\ people = <<>> /\ movieRatings = <<>>
    /\ selectedPersonId = NoPerson /\ shouldSort = TRUE
    /\ session_people = {Person("A", TRUE), Person("B", TRUE)}
    /\ movie_proposals = {} /\ movie_ratings = {} /\ proposal_comments = {}
    /\ watched_movies = {} /\ nextId = 1
    /\ op = Idle /\ feed = <<>> /\ opsLeft = 0 /\ last = NoStep
    /\ sortCall = NotCalled /\ view = NotCalled
    /\ NoExtras

NextPropose ==
    \/ \E personId \in EdgePersons, title \in EdgeTitles : serve(personId, title)
    \/ \E r \in edge.reqs : serve_select(r)
    \/ \E r \in edge.reqs, ok \in BOOLEAN : serve_insert(r, ok)

SpecPropose == InitPropose /\ [][NextPropose]_vars

\* C12: under every interleaving of propose requests the persisted
\* proposals hold at most one row per (proposer, movie title).
C12_OneRowPerProposerTitle ==
    \A p1, p2 \in movie_proposals :
        (p1.person_id = p2.person_id /\ p1.movie_title = p2.movie_title)
            => p1.id = p2.id

\* C11: a request for a (person, title) pair that already had a proposal
\* when the request came in is answered with the id of that proposal, and
\* the pair still has exactly one row.
C11_ReproposeReturnsExisting ==
    [][(last'.act = "edgeResponse" /\ last'.existed # {})
          => /\ last'.status = 200
             /\ last'.proposalId \in last'.existed
             /\ Cardinality({ p \in movie_proposals' :
                                 /\ p.person_id = last'.personId
                                 /\ p.movie_title = trim(last'.title) }) = 1]_vars

\* ======================================================================
\* useFavouriteMovie and the heart button of RatePanel.  favourite_movies
\* is unique on person_id (the conflict target of the upsert).
\* ======================================================================

\* calls of the hook, and writes of other tabs, per run
MaxFavOps == 3

\* session_people.name: two people of a session may bear the same name
NameOf(id) == IF id = "B" THEN "Bob" ELSE "Ann"

\* MovieRating.proposedBy of an entry built by transformRatingsData
proposedBy(movie) == NameOf(movie.proposerId)

\* presentPeople.find(p => p.id === selectedPersonId)?.name
selectedPersonName ==
    IF \E i \in 1..Len(presentPeople) : presentPeople[i].id = selectedPersonId
    THEN NameOf(selectedPersonId) ELSE NoPerson

isOwnProposalFor_Never(movie) == FALSE

isOwnProposalFor(movie) ==
    \/ selectedPersonName # NoPerson /\ selectedPersonName = proposedBy(movie)
    \/ selectedPersonId # NoPerson /\ movie.proposerId = selectedPersonId

\* .from("favourite_movies").select(...).eq("person_id", id).maybeSingle()
FavouriteOf(personId) == { f \in favourite_movies : f.person_id = personId }

existingProposalId(rows) ==
    IF rows = {} THEN Null ELSE (CHOOSE f \in rows : TRUE).proposal_id

UpsertFavourite_Insert(rows, personId, proposalId) ==
    rows \cup {[person_id |-> personId, proposal_id |-> proposalId]}

\* .upsert({ person_id, proposal_id }, { onConflict: "person_id" })
UpsertFavourite(rows, personId, proposalId) ==
    { f \in rows : f.person_id # personId }
        \cup {[person_id |-> personId, proposal_id |-> proposalId]}

\* .delete().eq("person_id", id)
DeleteFavourite(rows, personId) == { f \in rows : f.person_id # personId }

\* history: the call of toggleFavourite that ended in the step before this
\* one, if any
NoToggle ==
    [step |-> "none", ok |-> FALSE, selectOk |-> FALSE, personId |-> NoPerson,
     proposalId |-> Null, existing |-> Null]

PreviousToggle ==
    IF last.act = "toggleFavourite" /\ last.step \in {"upsert", "delete"}
    THEN [step |-> last.step, ok |-> last.ok, selectOk |-> last.selectOk,
          personId |-> last.personId, proposalId |-> last.proposalId,
          existing |-> last.existing]
    ELSE NoToggle

FavCall(type, personId, proposalId, pc, existing) ==
    [id |-> favOp.next, type |-> type, personId |-> personId,
     proposalId |-> proposalId, pc |-> pc, existing |-> existing,
     selectOk |-> FALSE,
     previous |-> IF type = "toggle" THEN PreviousToggle ELSE NoToggle]

\* what a step of toggleFavourite did; rowsBefore, localBefore, selectOk and
\* previous are history
FavStep(step, o, ok) ==
    [act |-> "toggleFavourite", step |-> step, ok |-> ok,
     personId |-> o.personId, proposalId |-> o.proposalId,
     existing |-> o.existing, rowsBefore |-> favourite_movies,
     localBefore |-> favoriteProposalId,
     selectOk |-> o.selectOk, previous |-> o.previous]

\* existingFav && existingFav.proposal_id === proposalId: the delete,
\* otherwise the upsert
\* mutant: the favourite found is not compared with the proposal
NextRequest_AlwaysUpsert(existingFav, proposalId) == "upsert"
NextRequest(existingFav, proposalId) ==
    IF existingFav # {} /\ existingProposalId(existingFav) = proposalId
    THEN "delete" ELSE "upsert"

FavQuiet ==
    UNCHANGED <<people, movieRatings, dbVars, ctlVars, helperVars, edge,
                detailedVars, cookieVars, star, realtime, detailsVars>>

\* The selection changes (setSelectedPersonId) and the hook's effect calls
\* loadFavourite for the new selection.
loadFavourite(id) ==
    /\ favOp.next <= MaxFavOps
    /\ id # selectedPersonId
    /\ selectedPersonId' = id /\ shouldSort' = TRUE
    /\ IF id = NoPerson
       THEN /\ favoriteProposalId' = Null
            /\ UNCHANGED favOp
       ELSE /\ favOp' = [next |-> favOp.next + 1,
                         ops |-> favOp.ops \cup {FavCall("load", id, Null, "select", Null)}]
            /\ UNCHANGED favoriteProposalId
    /\ last' = NoStep
    /\ UNCHANGED favourite_movies
    /\ FavQuiet

\* loadFavourite, resumed from its query
loadFavourite_select(o, ok) ==
    /\ o \in favOp.ops /\ o.type = "load"
    /\ favOp' = [favOp EXCEPT !.ops = @ \ {o}]
    /\ favoriteProposalId' =
           IF ok THEN existingProposalId(FavouriteOf(o.personId)) ELSE Null
    /\ last' = NoStep
    /\ UNCHANGED <<favourite_movies, selectedPersonId, shouldSort>>
    /\ FavQuiet

\* toggleFavourite, up to its query
toggleFavourite(proposalId, proposerPersonId) ==
    /\ favOp.next <= MaxFavOps
    /\ LET o == FavCall("toggle", selectedPersonId, proposalId, "select", Null)
       IN  IF selectedPersonId = NoPerson
           THEN /\ last' = FavStep("noPerson", o, TRUE)
                /\ favOp' = [favOp EXCEPT !.next = @ + 1]
           ELSE IF proposerPersonId # NoPerson /\ proposerPersonId = selectedPersonId
           THEN /\ last' = FavStep("ownProposal", o, TRUE)
                /\ favOp' = [favOp EXCEPT !.next = @ + 1]
           ELSE /\ last' = NoStep
                /\ favOp' = [next |-> favOp.next + 1, ops |-> favOp.ops \cup {o}]
    /\ UNCHANGED <<favourite_movies, favoriteProposalId, selectedPersonId, shouldSort>>
    /\ FavQuiet

\* toggleFavourite, resumed from its query (whose error is not read)
toggleFavourite_select(o, ok) ==
    /\ o \in favOp.ops /\ o.type = "toggle" /\ o.pc = "select"
    /\ LET existingFav == IF ok THEN FavouriteOf(o.personId) ELSE {}
           existing == existingProposalId(existingFav)
       IN  favOp' = [favOp EXCEPT !.ops = (@ \ {o}) \cup
                       {[o EXCEPT !.existing = existing, !.selectOk = ok,
                                  !.pc = NextRequest(existingFav, o.proposalId)]}]
    /\ last' = NoStep
    /\ UNCHANGED <<favourite_movies, favoriteProposalId, selectedPersonId, shouldSort>>
    /\ FavQuiet

\* toggleFavourite, resumed from the delete (whose error is not read)
toggleFavourite_delete(o, ok) ==
    /\ o \in favOp.ops /\ o.type = "toggle" /\ o.pc = "delete"
    /\ favOp' = [favOp EXCEPT !.ops = @ \ {o}]
    /\ favourite_movies' = IF ok THEN DeleteFavourite(favourite_movies, o.personId)
                           ELSE favourite_movies
    /\ favoriteProposalId' = Null
    /\ last' = FavStep("delete", o, ok)
    /\ UNCHANGED <<selectedPersonId, shouldSort>>
    /\ FavQuiet

\* toggleFavourite, resumed from the upsert (whose error is not read)
toggleFavourite_upsert(o, ok) ==
    /\ o \in favOp.ops /\ o.type = "toggle" /\ o.pc = "upsert"
    /\ favOp' = [favOp EXCEPT !.ops = @ \ {o}]
    /\ favourite_movies' =
           IF ok THEN UpsertFavourite(favourite_movies, o.personId, o.proposalId)
           ELSE favourite_movies
    /\ favoriteProposalId' = o.proposalId
    /\ last' = FavStep("upsert", o, ok)
    /\ UNCHANGED <<selectedPersonId, shouldSort>>
    /\ FavQuiet

\* RatePanel: the heart of a card is rendered for a selected person, a known
\* proposal id and a proposal that is not the person's own; a click calls
\* toggleFavourite(proposalId)
heartClick(i) ==
    /\ i \in 1..Len(movieRatings)
    /\ selectedPersonId # NoPerson
    /\ movieRatings[i].proposalId # 0
    /\ ~isOwnProposalFor(movieRatings[i])
    /\ toggleFavourite(movieRatings[i].proposalId, NoPerson)

\* a caller that hands the hook the proposer, as its signature provides
ProposerOf(proposalId) ==
    (CHOOSE p \in movie_proposals : p.id = proposalId).person_id

toggleFavourite_withProposer(proposalId) ==
    /\ \E p \in movie_proposals : p.id = proposalId
    /\ toggleFavourite(proposalId, ProposerOf(proposalId))

\* the heart of another tab, whose toggle has run to its end
RemoteFavourite(personId, proposalId) ==
    /\ favOp.next <= MaxFavOps
    /\ \E p \in movie_proposals : p.id = proposalId /\ p.person_id # personId
    /\ favOp' = [favOp EXCEPT !.next = @ + 1]
    /\ favourite_movies' =
           IF existingProposalId(FavouriteOf(personId)) = proposalId
           THEN DeleteFavourite(favourite_movies, personId)
           ELSE UpsertFavourite(favourite_movies, personId, proposalId)
    /\ last' = NoStep
    /\ UNCHANGED <<favoriteProposalId, selectedPersonId, shouldSort>>
    /\ FavQuiet

FavPersons == {"A", "B", "C"}

InitFav ==
    /\ people = <<>> /\ movieRatings = <<>>
    /\ selectedPersonId = NoPerson /\ shouldSort = TRUE
    /\ session_people = { Person(q, TRUE) : q \in FavPersons }
    /\ movie_proposals = {[id |-> 1, person_id |-> "A", movie_title |-> 1],
                          [id |-> 2, person_id |-> "B", movie_title |-> 2]}
    /\ movie_ratings = {} /\ proposal_comments = {} /\ watched_movies = {}
    /\ nextId = 3
    /\ op = Loading /\ feed = <<>> /\ opsLeft = 0 /\ last = NoStep
    /\ sortCall = NotCalled /\ view = NotCalled
    /\ NoExtras

NextFav ==
    \/ fetchSessionPeople
    \/ fetchProposalsWithRatingsAndComments
    \/ \E id \in FavPersons \cup {NoPerson} : loadFavourite(id)
    \/ \E o \in favOp.ops, ok \in BOOLEAN : loadFavourite_select(o, ok)
    \/ \E i \in 1..Len(movieRatings) : heartClick(i)
    \/ \E proposalId \in 1..2 : toggleFavourite_withProposer(proposalId)
    \/ \E o \in favOp.ops, ok \in BOOLEAN : toggleFavourite_select(o, ok)
    \/ \E o \in favOp.ops, ok \in BOOLEAN : toggleFavourite_delete(o, ok)
    \/ \E o \in favOp.ops, ok \in BOOLEAN : toggleFavourite_upsert(o, ok)
    \/ \E personId \in {"A", "C"}, proposalId \in 1..2 :
          RemoteFavourite(personId, proposalId)

SpecFav == InitFav /\ [][NextFav]_vars

\* C13: persistence never holds two favourite rows of one person; and when
\* toggleFavourite(X) found favourite Y # X and its upsert went through, the
\* person has exactly one row, pointing at X, and favoriteProposalId is X.
C13_OneFavouritePerPerson ==
    /\ \A f, g \in favourite_movies : f.person_id = g.person_id => f = g
    /\ (/\ last.act = "toggleFavourite" /\ last.step = "upsert" /\ last.ok
        /\ last.existing # Null /\ last.existing # last.proposalId)
          => /\ FavouriteOf(last.personId) =
                    {[person_id |-> last.personId, proposal_id |-> last.proposalId]}
             /\ favoriteProposalId = last.proposalId

C13_Witness ==
    /\ last.act = "toggleFavourite" /\ last.step = "upsert" /\ last.ok
    /\ last.existing = 1 /\ last.proposalId = 2
    /\ [person_id |-> last.personId, proposal_id |-> 1] \in last.rowsBefore

MaxDetailedOps == 3

DetailedScores == {0, 15}
DetailedPersons == {"A", "B"}

\* a ?? b on an optional boolean
orElse(opt, default) == IF opt = {} THEN default ELSE CHOOSE b \in opt : TRUE

DetailedRating(id, movieId, personId, rating, present) ==
    [id |-> id, watched_movie_id |-> movieId, person_id |-> personId,
     rating |-> rating, present |-> present]

\* Array.prototype.findIndex, from 1; 0 when nothing matches
FindIndex(s, Test(_)) ==
    IF \E i \in 1..Len(s) : Test(s[i])
    THEN CHOOSE i \in 1..Len(s) : Test(s[i]) /\ \A j \in 1..(i - 1) : ~Test(s[j])
    ELSE 0

\* ---- components/WatchedMovies/utils
getMovieRatings(movieId, rows) ==
    SelectSeq(rows, LAMBDA r : r.watched_movie_id = movieId /\ r.rating # Null)

getAverageRating(movieId, rows) ==
    LET ratings == getMovieRatings(movieId, rows)
    IN  IF Len(ratings) = 0 THEN Zero
        ELSE Quotient(SeqSum(MapSeq(ratings, LAMBDA r : r.rating)), Len(ratings))

getRatingForPerson(movieId, personId, rows) ==
    LET i == FindIndex(rows, LAMBDA r : r.watched_movie_id = movieId /\ r.person_id = personId)
    IN  IF i = 0 THEN Null ELSE rows[i].rating

hasSelectedPersonVoted(movieId, personId, rows) ==
    \E i \in 1..Len(rows) : /\ rows[i].watched_movie_id = movieId
                            /\ rows[i].person_id = personId
                            /\ rows[i].rating # Null

\* `${movieId}-${person.id}`: distinct pairs of ids give distinct keys
LocalKey(movieId, personId) == <<movieId, personId>>

getPresentPersonIds(movieId, persons, rows, local) ==
    MapSeq(SelectSeq(persons, LAMBDA person :
               IF LocalKey(movieId, person.id) \in DOMAIN local
               THEN local[LocalKey(movieId, person.id)]
               ELSE LET i == FindIndex(rows, LAMBDA r : /\ r.watched_movie_id = movieId
                                                       /\ r.person_id = person.id)
                    IN  IF i = 0 THEN FALSE ELSE orElse(rows[i].present, FALSE)),
           LAMBDA person : person.id)

isFullyRated(movieId, persons, rows, local) ==
    LET presentPersonIds == getPresentPersonIds(movieId, persons, rows, local)
    IN  IF Len(presentPersonIds) = 0 THEN FALSE
        ELSE \A k \in 1..Len(presentPersonIds) :
                hasSelectedPersonVoted(movieId, presentPersonIds[k], rows)

\* useWatchedMoviesData.people, as loaded
watchedPeople == <<[id |-> "A"], [id |-> "B"]>>

\* ---- persistence: upsert on (watched_movie_id, person_id)
DetailedRow(movieId, personId) ==
    { r \in detailed_ratings : r.watched_movie_id = movieId /\ r.person_id = personId }

UpsertedRow(movieId, personId, rating, present) ==
    IF DetailedRow(movieId, personId) = {}
    THEN DetailedRating(nextId, movieId, personId, rating, present)
    ELSE [(CHOOSE r \in DetailedRow(movieId, personId) : TRUE)
             EXCEPT !.rating = rating, !.present = present]

UpsertDetailed(movieId, personId, rating, present) ==
    (detailed_ratings \ DetailedRow(movieId, personId))
        \cup {UpsertedRow(movieId, personId, rating, present)}

DetailedEvent(row) == [table |-> "detailed_ratings", eventType |-> "UPSERT", new |-> row]

\* temp-${Date.now()}: an id no persisted row has
TempId == 0 - (nextId + 1)

DetailedQuiet ==
    UNCHANGED <<localVars, session_people, movie_proposals, movie_ratings,
                proposal_comments, watched_movies, helperVars, edge, favVars,
                cookieVars, star, realtime, detailsVars>>

\* ---- useMovieRatings.updateDetailedRating, up to the await of the upsert
updateDetailedRating(movieId, personId, rating, present) ==
    /\ op = Idle /\ opsLeft > 0
    /\ opsLeft' = opsLeft - 1
    /\ IF rating # Null \/ present
       THEN /\ op' = [type |-> "detailed", movieId |-> movieId, personId |-> personId,
                      rating |-> rating, present |-> present]
            /\ last' = NoStep
       ELSE /\ op' = Idle
            /\ last' = [act |-> "updateDetailedRating", step |-> "skipped"]
    /\ UNCHANGED <<detailedVars, nextId, feed>>
    /\ DetailedQuiet

\* resumed from the upsert: an error is thrown and nothing changes; else
\* the entry of the pair is patched in place, or a placeholder is appended
updateDetailedRating_upsert(ok) ==
    /\ op.type = "detailed"
    /\ op' = Idle
    /\ IF ok
       THEN LET row == UpsertedRow(op.movieId, op.personId, op.rating, {op.present})
                existingIndex == FindIndex(detailedRatings, LAMBDA r :
                    r.watched_movie_id = op.movieId /\ r.person_id = op.personId)
            IN  /\ detailed_ratings' =
                       UpsertDetailed(op.movieId, op.personId, op.rating, {op.present})
                /\ feed' = Append(feed, DetailedEvent(row))
                /\ detailedRatings' =
                       IF existingIndex > 0
                       THEN [detailedRatings EXCEPT
                                ![existingIndex].rating = op.rating,
                                ![existingIndex].present = {op.present}]
                       ELSE Append(detailedRatings,
                                DetailedRating(TempId, op.movieId, op.personId,
                                               op.rating, {op.present}))
                /\ nextId' = nextId + 1
       ELSE UNCHANGED <<detailedRatings, detailed_ratings, feed, nextId>>
    /\ last' = [act |-> "updateDetailedRating", step |-> "upsert", ok |-> ok,
                movieId |-> op.movieId, personId |-> op.personId,
                rating |-> op.rating, present |-> op.present]
    /\ UNCHANGED <<localPresentStates, opsLeft>>
    /\ DetailedQuiet

\* mutant: the toggle is persisted whatever it is
ShouldPersistPresence_Always(newPresent, entryExists) == TRUE

\* if (newPresent || entryExists)
ShouldPersistPresence(newPresent, entryExists) == newPresent \/ entryExists

\* ---- WatchedMovieCard.handlePresentChange, up to the await of the upsert
handlePresentChange(movieId, personId, newPresent) ==
    /\ op = Idle /\ opsLeft > 0
    /\ opsLeft' = opsLeft - 1
    /\ localPresentStates' =
           [k \in DOMAIN localPresentStates \cup {LocalKey(movieId, personId)} |->
              IF k = LocalKey(movieId, personId) THEN newPresent
              ELSE localPresentStates[k]]
    /\ LET currentRating == getRatingForPerson(movieId, personId, detailedRatings)
           entryExists ==
               FindIndex(detailedRatings, LAMBDA r :
                   r.watched_movie_id = movieId /\ r.person_id = personId) > 0
       IN  /\ op' = IF ShouldPersistPresence(newPresent, entryExists)
                    THEN [type |-> "present", movieId |-> movieId, personId |-> personId,
                          rating |-> currentRating, present |-> newPresent]
                    ELSE Idle
           /\ last' = [act |-> "handlePresentChange", step |-> "call",
                       movieId |-> movieId, personId |-> personId,
                       present |-> newPresent, entryExists |-> entryExists]
    /\ UNCHANGED <<detailedRatings, detailed_ratings, nextId, feed>>
    /\ DetailedQuiet

\* resumed from the upsert, whose error is returned, not thrown: the catch
\* never runs, and the local list is left to the change feed
handlePresentChange_upsert(ok) ==
    /\ op.type = "present"
    /\ op' = Idle
    /\ IF ok
       THEN /\ detailed_ratings' =
                   UpsertDetailed(op.movieId, op.personId, op.rating, {op.present})
            /\ feed' = Append(feed, DetailedEvent(
                           UpsertedRow(op.movieId, op.personId, op.rating, {op.present})))
            /\ nextId' = nextId + 1
       ELSE UNCHANGED <<detailed_ratings, feed, nextId>>
    /\ last' = NoStep
    /\ UNCHANGED <<detailedRatings, localPresentStates, opsLeft>>
    /\ DetailedQuiet

\* payload.old of a DELETE carries the primary key alone; `row` keeps the
\* deleted row for the record, no handler reads it
DetailedDeleteEvent(row) ==
    [table |-> "detailed_ratings", eventType |-> "DELETE", old |-> [id |-> row.id],
     row |-> row]

\* ---- useWatchedMoviesData: the detailed_ratings handler
OnDetailedRatingsChange ==
    /\ feed # <<>> /\ Head(feed).table = "detailed_ratings"
    /\ feed' = Tail(feed)
    /\ IF Head(feed).eventType = "DELETE"
       THEN /\ detailedRatings' =
                   SelectSeq(detailedRatings, LAMBDA r : r.id # Head(feed).old.id)
            /\ last' = [act |-> "detailedDelete", id |-> Head(feed).old.id,
                        movieId |-> Head(feed).row.watched_movie_id,
                        personId |-> Head(feed).row.person_id]
       ELSE /\ LET rating == Head(feed).new
                   idx == FindIndex(detailedRatings, LAMBDA r : r.id = rating.id)
               IN  detailedRatings' = IF idx > 0
                                      THEN [detailedRatings EXCEPT ![idx] = rating]
                                      ELSE Append(detailedRatings, rating)
            /\ last' = NoStep
    /\ UNCHANGED <<op, opsLeft, localPresentStates, detailed_ratings, nextId>>
    /\ DetailedQuiet

\* the same page in another tab writes a row
RemoteDetailedRating(movieId, personId, rating, present) ==
    /\ opsLeft > 0
    /\ opsLeft' = opsLeft - 1
    /\ detailed_ratings' = UpsertDetailed(movieId, personId, rating, {present})
    /\ feed' = Append(feed, DetailedEvent(UpsertedRow(movieId, personId, rating, {present})))
    /\ nextId' = nextId + 1
    /\ last' = NoStep
    /\ UNCHANGED <<op, detailedRatings, localPresentStates>>
    /\ DetailedQuiet

\* the rows persisted when the page opens; loadData has put them in the list
DetailedSeeds ==
    { {},
      {DetailedRating(1, 1, "A", 15, {FALSE})},
      {DetailedRating(1, 1, "A", 0, {TRUE}), DetailedRating(2, 2, "B", 15, {})},
      {DetailedRating(1, 1, "A", Null, {TRUE}), DetailedRating(2, 1, "B", 0, {FALSE})} }

InitDetailed ==
    /\ people = <<>> /\ movieRatings = <<>>
    /\ selectedPersonId = NoPerson /\ shouldSort = TRUE
    /\ session_people = {} /\ movie_proposals = {} /\ movie_ratings = {}
    /\ proposal_comments = {} /\ watched_movies = {} /\ nextId = 3
    /\ op = Idle /\ feed = <<>> /\ opsLeft = MaxDetailedOps /\ last = NoStep
    /\ sortCall = NotCalled /\ view = NotCalled
    /\ NoEdge /\ NoFavourite /\ NoCookies /\ NoStar /\ NoRealtime /\ NoFetch
    /\ detailed_ratings \in DetailedSeeds
    /\ detailedRatings \in Orderings(detailed_ratings)
    /\ localPresentStates = <<>>

NextDetailed ==
    \/ \E personId \in DetailedPersons, rating \in DetailedScores \cup {Null},
          present \in BOOLEAN : updateDetailedRating(1, personId, rating, present)
    \/ \E ok \in BOOLEAN : updateDetailedRating_upsert(ok)
    \/ \E personId \in DetailedPersons, newPresent \in BOOLEAN :
          handlePresentChange(1, personId, newPresent)
    \/ \E ok \in BOOLEAN : handlePresentChange_upsert(ok)
    \/ OnDetailedRatingsChange
    \/ \E rating \in DetailedScores, present \in BOOLEAN :
          RemoteDetailedRating(1, "A", rating, present)

SpecDetailed == InitDetailed /\ [][NextDetailed]_vars

RowsOf(movieId, personId) ==
    { i \in 1..Len(detailedRatings) :
        /\ detailedRatings[i].watched_movie_id = movieId
        /\ detailedRatings[i].person_id = personId }

\* C15: for every movie and person, when the list holds a row of the pair
\* with score 0, getRatingForPerson returns 0, the person counts as having
\* voted and the row is among the ratings averaged; and getRatingForPerson
\* returns null only when the list holds no row of the pair or a row of the
\* pair with a null score.
C15_ZeroIsARating ==
    \A movieId \in 1..2, personId \in DetailedPersons :
        /\ (\E i \in RowsOf(movieId, personId) : detailedRatings[i].rating = 0)
              => /\ getRatingForPerson(movieId, personId, detailedRatings) = 0
                 /\ hasSelectedPersonVoted(movieId, personId, detailedRatings)
                 /\ \E k \in 1..Len(getMovieRatings(movieId, detailedRatings)) :
                       LET r == getMovieRatings(movieId, detailedRatings)[k]
                       IN  r.person_id = personId /\ r.rating = 0
        /\ getRatingForPerson(movieId, personId, detailedRatings) = Null
              => \/ RowsOf(movieId, personId) = {}
                 \/ \E i \in RowsOf(movieId, personId) : detailedRatings[i].rating = Null

\* C16: a row with a score and present = false is among the ratings
\* averaged for its movie; unless a local toggle says otherwise, its person
\* is not among the present person ids; and isFullyRated is decided by the
\* present person ids alone, false when there are none.
C16_AbsentRatingCounts ==
    \A movieId \in 1..2 :
        LET presentIds == getPresentPersonIds(movieId, watchedPeople, detailedRatings,
                                              localPresentStates)
        IN  /\ \A i \in 1..Len(detailedRatings) :
                  LET r == detailedRatings[i]
                  IN  (/\ r.watched_movie_id = movieId /\ r.rating # Null
                       /\ r.present = {FALSE})
                        => /\ Contains(getMovieRatings(movieId, detailedRatings), r)
                           /\ LocalKey(movieId, r.person_id) \notin DOMAIN localPresentStates
                                 => ~Contains(presentIds, r.person_id)
            /\ isFullyRated(movieId, watchedPeople, detailedRatings, localPresentStates)
                  = (/\ Len(presentIds) > 0
                     /\ \A k \in 1..Len(presentIds) :
                           \E i \in RowsOf(movieId, presentIds[k]) :
                               detailedRatings[i].rating # Null)

\* C17: a step in which the creation round-trip of a title newly added for
\* person P comes back (every invocation of the call fulfilled, the upsert
\* of the default rating carried out) leaves the rating (new proposal, P, 5)
\* in persistence and P -> 5 in a local entry of that title; and a step in
\* which a later updateRating(title, P, r) with r > 0 comes back without an
\* error leaves r as the rating persisted for P on P's own proposal of that
\* title.
C17_ProposerDefaultRating ==
    [][/\ (/\ last'.act = "propose" /\ last'.ok
           /\ op.type = "updatePerson"
           /\ ProposalExists(op.pending)
           /\ \A k \in 1..Len(op.results) : op.results[k].fulfilled) =>
             /\ \E r \in movie_ratings' :
                   /\ r.proposal_id = last'.proposalId
                   /\ r.person_id = last'.personId
                   /\ r.rating = DefaultRating
             /\ \E i \in 1..Len(movieRatings') :
                   /\ movieRatings'[i].movieTitle = last'.movieTitle
                   /\ last'.personId \in DOMAIN movieRatings'[i].ratings
                   /\ movieRatings'[i].ratings[last'.personId] = DefaultRating
       /\ (last'.act = "updateRating" /\ last'.ok /\ last'.rating > 0) =>
             \A p \in movie_proposals' :
                 (p.person_id = last'.personId /\ p.movie_title = last'.movieTitle)
                   => \A r \in movie_ratings' :
                         (r.proposal_id = p.id /\ r.person_id = last'.personId)
                           => r.rating = last'.rating]_vars

\* C18: a step in which deletePerson or markMovieAsWatched is called and
\* the confirmation is declined leaves people, movieRatings and every
\* persisted table as they were, queues no change event and leaves no
\* request of the operation in flight.
C18_DeclinedChangesNothing ==
    [][(/\ last'.act \in {"deletePerson", "markMovieAsWatched"}
        /\ last'.step \in {"call", "proposal", "declined"}
        /\ (last'.act = "deletePerson" => last'.asked)
        /\ ~last'.confirmed) =>
          /\ UNCHANGED <<people, movieRatings, dbVars, feed>>
          /\ op' = Idle]_vars

\* the removal of a person who has a proposal was asked for and declined,
\* after an earlier operation of the run
C18_Witness ==
    /\ last.act = "deletePerson" /\ last.asked /\ ~last.confirmed
    /\ \E p \in movie_proposals : p.person_id = last.id
    /\ opsLeft < MaxDialogs - 1

\* ======================================================================
\* The selected-person cookie.  The jar holds at most one cookie per name;
\* the browser drops a cookie when its expiry is reached.  The clock counts
\* days, the unit of js-cookie's expires option.
\* ======================================================================

\* { expires: 30 }
ExpiryDays == 30
\* days a run lasts
MaxClock == 31
\* calls of setSelectedPersonForSession per run
MaxCookieSets == 3

CookieSessions == {"s1", "s2"}
CookiePersons == {"", "A", "B"}

\* `selectedPerson_${sessionId}`
CookieName_Shared(sessionId) == <<"selectedPerson_", "">>
CookieName(sessionId) == <<"selectedPerson_", sessionId>>

\* Cookies.get(name): the value, or undefined (the empty set)
CookiesGet(name) ==
    { c.value : c \in { c \in cookies : c.name = name /\ c.expires > now } }

\* Cookies.set(name, value, { expires: days })
CookiesSet(name, value, days) ==
    { c \in cookies : c.name # name }
        \cup {[name |-> name, value |-> value, expires |-> now + days]}

\* Cookies.remove(name)
CookiesRemove(name) == { c \in cookies : c.name # name }

\* Cookies.get(...) || ""
getSelectedPersonForSession(sessionId) ==
    LET value == CookiesGet(CookieName(sessionId))
    IN  IF value = {} \/ value = {""} THEN "" ELSE CHOOSE v \in value : TRUE

CookieQuiet ==
    UNCHANGED <<localVars, dbVars, op, feed, helperVars, edge, favVars, detailedVars, star,
                realtime, detailsVars>>

setSelectedPersonForSession(sessionId, personId) ==
    /\ opsLeft > 0
    /\ cookies' = IF personId = "" THEN CookiesRemove(CookieName(sessionId))
                  ELSE CookiesSet(CookieName(sessionId), personId, ExpiryDays)
    /\ last' = [act |-> "setSelectedPersonForSession", sessionId |-> sessionId,
                personId |-> personId,
                before |-> [t \in CookieSessions |-> getSelectedPersonForSession(t)]]
    /\ opsLeft' = opsLeft - 1
    /\ UNCHANGED now /\ CookieQuiet

\* a read of the cookie, as the page makes when it opens a session
ReadSelectedPerson(sessionId) ==
    /\ last' = [act |-> "getSelectedPersonForSession", sessionId |-> sessionId,
                result |-> getSelectedPersonForSession(sessionId)]
    /\ UNCHANGED <<cookieVars, opsLeft>> /\ CookieQuiet

\* a day passes
Tick ==
    /\ now < MaxClock
    /\ now' = now + 1
    /\ cookies' = { c \in cookies : c.expires > now + 1 }
    /\ last' = NoStep
    /\ UNCHANGED opsLeft /\ CookieQuiet

InitCookies ==
    /\ people = <<>> /\ movieRatings = <<>>
    /\ selectedPersonId = NoPerson /\ shouldSort = TRUE
    /\ EmptyTables
    /\ op = Idle /\ feed = <<>> /\ opsLeft = MaxCookieSets /\ last = NoStep
    /\ sortCall = NotCalled /\ view = NotCalled
    /\ NoExtras

NextCookies ==
    \/ \E sessionId \in CookieSessions, personId \in CookiePersons :
          setSelectedPersonForSession(sessionId, personId)
    \/ \E sessionId \in CookieSessions : ReadSelectedPerson(sessionId)
    \/ Tick

SpecCookies == InitCookies /\ [][NextCookies]_vars

\* C19: right after setSelectedPersonForSession(s, p) with non-empty p,
\* getSelectedPersonForSession(s) is p, the cookie of s expires 30 days from
\* now and every other session reads what it read before; right after
\* setSelectedPersonForSession(s, "") the jar holds no cookie of s and
\* getSelectedPersonForSession(s) is the empty string, the other sessions
\* again reading what they read before; and every read returns the person
\* of a cookie that was set less than 30 days ago, or the empty string.
C19_CookieRoundTrip ==
    /\ last.act = "setSelectedPersonForSession" =>
          /\ \A t \in CookieSessions \ {last.sessionId} :
                getSelectedPersonForSession(t) = last.before[t]
          /\ IF last.personId # ""
             THEN /\ getSelectedPersonForSession(last.sessionId) = last.personId
                  /\ \E c \in cookies :
                        /\ c.name = CookieName(last.sessionId)
                        /\ c.value = last.personId
                        /\ c.expires = now + ExpiryDays
             ELSE /\ getSelectedPersonForSession(last.sessionId) = ""
                  /\ \A c \in cookies : c.name # CookieName(last.sessionId)
    /\ last.act = "getSelectedPersonForSession" =>
          \/ last.result = ""
          \/ \E c \in cookies :
                /\ c.name = CookieName(last.sessionId) /\ c.value = last.result
                /\ c.expires > now /\ c.expires <= now + ExpiryDays

\* a person was stored for one session while the other session held a
\* different person, stored some days earlier
C19_Witness ==
    /\ last.act = "setSelectedPersonForSession" /\ last.personId = "B"
    /\ \E t \in CookieSessions \ {last.sessionId} : last.before[t] = "A"
    /\ last.before[last.sessionId] = "A"
    /\ now > 0

\* ======================================================================
\* The StarRating control.  star.rating and star.readonly are its props,
\* star.calls the arguments onRatingChange was called with, star.clicks the
\* clicks on its buttons with the props they met.
\* ======================================================================

\* [1, 2, 3, 4, 5].map
Stars == 1..5
\* clicks per run
MaxClicks == 3
\* ratings the parent renders the control with
StarRatings == {0, 2, 5}

\* rating === star ? 0 : star
Emitted_Star(rating, clicked) == clicked
Emitted(rating, clicked) == IF rating = clicked THEN 0 ELSE clicked

StarQuiet ==
    UNCHANGED <<localVars, dbVars, ctlVars, last, helperVars, edge, favVars, detailedVars,
                cookieVars, realtime, detailsVars>>

\* a click on the button of a star: a disabled button fires no click event
onClick(clicked) ==
    /\ Len(star.clicks) < MaxClicks
    /\ LET calls == IF star.readonly THEN <<>> ELSE <<Emitted(star.rating, clicked)>>
       IN  star' = [star EXCEPT
                      !.calls = @ \o calls,
                      !.clicks = Append(@, [star |-> clicked, rating |-> star.rating,
                                            readonly |-> star.readonly, calls |-> calls])]
    /\ StarQuiet

\* the parent takes the rating it was called with and renders the control
\* with it
onRatingChange ==
    /\ star.calls # <<>>
    /\ star.rating # star.calls[Len(star.calls)]
    /\ star' = [star EXCEPT !.rating = star.calls[Len(star.calls)]]
    /\ StarQuiet

\* the parent renders the control with other props
StarRating(rating, readonly) ==
    /\ Len(star.clicks) < MaxClicks
    /\ <<rating, readonly>> # <<star.rating, star.readonly>>
    /\ star' = [star EXCEPT !.rating = rating, !.readonly = readonly]
    /\ StarQuiet

InitStar ==
    /\ people = <<>> /\ movieRatings = <<>>
    /\ selectedPersonId = NoPerson /\ shouldSort = TRUE
    /\ EmptyTables
    /\ op = Idle /\ feed = <<>> /\ opsLeft = 0 /\ last = NoStep
    /\ sortCall = NotCalled /\ view = NotCalled
    /\ NoEdge /\ NoFavourite /\ NoDetailed /\ NoCookies /\ NoRealtime /\ NoFetch
    /\ \E rating \in StarRatings, readonly \in BOOLEAN :
          star = [rating |-> rating, readonly |-> readonly, calls |-> <<>>, clicks |-> <<>>]

NextStar ==
    \/ \E clicked \in Stars : onClick(clicked)
    \/ onRatingChange
    \/ \E rating \in StarRatings, readonly \in BOOLEAN : StarRating(rating, readonly)

SpecStar == InitStar /\ [][NextStar]_vars

RECURSIVE Flatten(_)
Flatten(clicks) ==
    IF clicks = <<>> THEN <<>> ELSE Head(clicks).calls \o Flatten(Tail(clicks))

\* C20: a click on star s of a control that is not readonly calls
\* onRatingChange once, with s when s differs from the rating of the
\* control and with 0 when s is that rating; a click on a readonly control
\* calls nothing; and of two clicks in a row on the same star s of a
\* control that is not readonly, the first one met by a rating other than s
\* and the second by the rating the first one set, the first calls with s
\* and the second with 0.
C20_StarToggle ==
    LET clicks == star.clicks
    IN  /\ star.calls = Flatten(clicks)
        /\ \A i \in 1..Len(clicks) :
              IF clicks[i].readonly THEN clicks[i].calls = <<>>
              ELSE /\ clicks[i].star # clicks[i].rating => clicks[i].calls = <<clicks[i].star>>
                   /\ clicks[i].star = clicks[i].rating => clicks[i].calls = <<0>>
        /\ \A i \in 1..(Len(clicks) - 1) :
              (/\ clicks[i].star = clicks[i + 1].star
               /\ ~clicks[i].readonly /\ ~clicks[i + 1].readonly
               /\ clicks[i].rating # clicks[i].star
               /\ clicks[i + 1].rating = clicks[i].star) =>
                 /\ clicks[i].calls = <<clicks[i].star>>
                 /\ clicks[i + 1].calls = <<0>>

\* star 4 was clicked twice in a row on a control that showed 2 stars: the
\* parent rendered it with 4 in between, and rendered it readonly and had it
\* clicked after
C20_Witness ==
    /\ Len(star.clicks) = 3
    /\ star.clicks[1].star = 4 /\ star.clicks[1].rating = 2 /\ ~star.clicks[1].readonly
    /\ star.clicks[2].star = 4 /\ star.clicks[2].rating = 4 /\ ~star.clicks[2].readonly
    /\ star.clicks[3].readonly
    /\ star.calls = <<4, 0>>

\* ======================================================================
\* The limit of MaxMovies proposals per person.  PersonCard.addMovie is its
\* only guard; it reads the roster of the tab it runs in.
\* ======================================================================

\* operations, remote writes and injected failures per run
MaxCapOps == 3
\* the title another tab proposes for A
RemoteTitles == {4}

\* Another tab, whose roster shows fewer than MaxMovies titles for the
\* person, adds a title: its call of the edge function inserts the proposal
\* and its upsert stores the proposer's default rating.
RemoteProposal ==
    /\ CanStart
    /\ \E movieTitle \in RemoteTitles :
          LET theirs == { p \in movie_proposals : p.person_id = "A" }
              newProposal == [id |-> nextId, person_id |-> "A", movie_title |-> movieTitle]
              rating == [proposal_id |-> nextId, person_id |-> "A",
                         rating |-> DefaultRating, watched_movie_id |-> 0]
          IN  /\ Cardinality(theirs) < MaxMovies
              /\ \A p \in theirs : p.movie_title # movieTitle
              /\ movie_proposals' = movie_proposals \cup {newProposal}
              /\ movie_ratings' = movie_ratings \cup {rating}
              /\ nextId' = nextId + 1
              /\ Enqueue(<<ProposalEvent("INSERT", newProposal), RatingEvent("INSERT", rating)>>)
    /\ opsLeft' = opsLeft - 1
    /\ last' = NoStep
    /\ UNCHANGED <<localVars, session_people, proposal_comments, watched_movies, op>>
    /\ Quiet

\* a session in which A has proposed two titles
InitCap ==
    /\ people = <<>> /\ movieRatings = <<>>
    /\ selectedPersonId = NoPerson /\ shouldSort = TRUE
    /\ session_people = {Person("A", TRUE), Person("B", TRUE), Person("C", FALSE)}
    /\ movie_proposals = {[id |-> 1, person_id |-> "A", movie_title |-> 2],
                          [id |-> 2, person_id |-> "A", movie_title |-> 3]}
    /\ movie_ratings = {[proposal_id |-> 1, person_id |-> "A", rating |-> DefaultRating,
                         watched_movie_id |-> 0],
                        [proposal_id |-> 2, person_id |-> "A", rating |-> DefaultRating,
                         watched_movie_id |-> 0]}
    /\ proposal_comments = {} /\ nextId = 3
    /\ watched_movies = {}
    /\ op = Loading /\ feed = <<>> /\ opsLeft = MaxCapOps /\ last = NoStep
    /\ sortCall = NotCalled /\ view = NotCalled
    /\ NoExtras

NextCap ==
    \/ fetchSessionPeople
    \/ fetchProposalsWithRatingsAndComments
    \/ OnRatingsChange
    \/ OnPeopleChange
    \/ OnProposalsChange
    \/ RemoteProposal
    \/ updatePerson
    \/ updatePerson_update
    \/ updatePersonMovies_select
    \/ updatePersonMovies_delete
    \/ updatePersonMovies_invoke
    \/ updatePersonMovies_upsert

SpecCap == InitCap /\ [][NextCap]_vars

\* C21: in every state, every person of the roster lists at most MaxMovies
\* movies and persistence holds at most MaxMovies proposals of each person.
C21_AtMostThreeMovies ==
    /\ \A i \in 1..Len(people) : Len(people[i].movies) <= MaxMovies
    /\ \A row \in session_people :
          Cardinality({ p \in movie_proposals : p.person_id = row.id }) <= MaxMovies

\* C22: once the operations have returned and every change event has been
\* delivered, movieRatings holds exactly one entry for each proposal a
\* creation round-trip has just made: no second entry carries its id.
C22_OneEntryPerProposal ==
    (op = Idle /\ feed = <<>>) =>
        \A p \in movie_proposals :
            Cardinality({ i \in 1..Len(movieRatings) : movieRatings[i].proposalId = p.id }) <= 1

\* ======================================================================
\* addPerson(name).  The insert is carried out by the server before its
\* response is on the way back; the change event of the new row travels on
\* the realtime channel and is delivered before or after the response.
\* ======================================================================

\* operations, remote writes and injected failures per run
MaxRosterOps == 3
\* names typed into the form: a padded name and blanks
PersonNames == {EdgeTitle(1, TRUE), EdgeTitle(Blank, TRUE)}

\* the id the database gives the next person
NewPersonId ==
    LET free == SelectSeq(PersonOrder, LAMBDA q : \A r \in session_people : r.id # q)
    IN  IF free = <<>> THEN NoPerson ELSE free[1]

\* from the call to the await of the insert
addPerson ==
    /\ op.type = "idle" /\ CanStart
    /\ \E name \in PersonNames :
          IF trim(name) = Blank
          THEN /\ op' = Idle
               /\ last' = [act |-> "addPerson", step |-> "blank", id |-> NoPerson, ok |-> FALSE]
          ELSE IF NoSessionLoaded
          THEN /\ op' = Idle
               /\ last' = NoSessionStep("addPerson", 0)
          ELSE /\ NewPersonId # NoPerson
               /\ op' = [type |-> "addPerson", pc |-> "insert", id |-> NoPerson, ok |-> FALSE]
               /\ last' = NoStep
    /\ opsLeft' = opsLeft - 1
    /\ UNCHANGED <<localVars, dbVars, feed>> /\ Quiet

\* the server carries out insert(...).select().single()
addPerson_insert ==
    /\ op.type = "addPerson" /\ op.pc = "insert"
    /\ \E ok \in Outcomes :
          LET row == Person(NewPersonId, TRUE)
          IN  /\ Pay(ok)
              /\ IF ok
                 THEN /\ session_people' = session_people \cup {row}
                      /\ Enqueue(<<PersonEvent("INSERT", row)>>)
                      /\ op' = [op EXCEPT !.pc = "response", !.id = row.id, !.ok = TRUE]
                 ELSE /\ op' = [op EXCEPT !.pc = "response"]
                      /\ UNCHANGED <<session_people, feed>>
    /\ last' = NoStep
    /\ UNCHANGED <<localVars, movie_proposals, movie_ratings, proposal_comments,
                   watched_movies, nextId>> /\ Quiet

\* the response of the insert has arrived
addPerson_response ==
    /\ op.type = "addPerson" /\ op.pc = "response"
    /\ people' = IF op.ok
                 THEN Append(people, [id |-> op.id, isPresent |-> TRUE, movies |-> <<>>])
                 ELSE people
    /\ op' = Idle
    /\ last' = [act |-> "addPerson", step |-> "response", id |-> op.id, ok |-> op.ok]
    /\ UNCHANGED <<movieRatings, selectedPersonId, shouldSort, dbVars, feed, opsLeft>>
    /\ Quiet

\* another tab adds a person
RemotePerson ==
    /\ CanStart /\ NewPersonId # NoPerson
    /\ session_people' = session_people \cup {Person(NewPersonId, TRUE)}
    /\ Enqueue(<<PersonEvent("INSERT", Person(NewPersonId, TRUE))>>)
    /\ opsLeft' = opsLeft - 1
    /\ last' = NoStep
    /\ UNCHANGED <<localVars, movie_proposals, movie_ratings, proposal_comments,
                   watched_movies, nextId, op>> /\ Quiet

\* a session with one person
InitRoster ==
    /\ people = <<>> /\ movieRatings = <<>>
    /\ selectedPersonId = NoPerson /\ shouldSort = TRUE
    /\ session_people = {Person("A", TRUE)}
    /\ movie_proposals = {} /\ movie_ratings = {} /\ proposal_comments = {} /\ nextId = 1
    /\ watched_movies = {}
    /\ op = Loading /\ feed = <<>> /\ opsLeft = MaxRosterOps /\ last = NoStep
    /\ sortCall = NotCalled /\ view = NotCalled
    /\ NoExtras

NextRoster ==
    \/ fetchSessionPeople
    \/ fetchProposalsWithRatingsAndComments
    \/ OnPeopleChange
    \/ RemotePerson
    \/ RemotePresence
    \/ addPerson
    \/ addPerson_insert
    \/ addPerson_response

SpecRoster == InitRoster /\ [][NextRoster]_vars

\* C23: in every state the roster holds each person id at most once.
C23_RosterIdsDistinct ==
    \A i, j \in 1..Len(people) : people[i].id = people[j].id => i = j

\* ======================================================================
\* Two tabs rating for the same person.  The upsert or delete of
\* updateRating is carried out by the server before its response is on the
\* way back; change events are delivered before or after the response.
\* ======================================================================

\* operations, remote writes and injected failures per run
MaxConflictOps == 3
\* what the other tab writes for B
ConflictRatings == {4}

\* the server carries out the upsert / delete of updateRating
updateRating_server ==
    /\ op.type = "updateRating"
    /\ \E ok \in Outcomes, full \in BOOLEAN :
          LET w == IF op.rating = 0 THEN DeleteRating(op.proposalId, op.personId, full)
                   ELSE UpsertRating(op.proposalId, op.personId, op.rating)
              done == ok /\ (op.rating = 0 \/ ProposalExists(op.proposalId))
          IN  /\ (full \/ (done /\ op.rating = 0 /\ w.events # <<>>))
              /\ movie_ratings' = IF done THEN w.ratings ELSE movie_ratings
              /\ Enqueue(IF done THEN w.events ELSE <<>>)
              /\ Pay(ok)
              /\ op' = [type |-> "updateRatingResponse", movieTitle |-> op.movieTitle,
                        personId |-> op.personId, rating |-> op.rating,
                        proposalId |-> op.proposalId, ok |-> done]
    /\ last' = NoStep
    /\ UNCHANGED <<localVars, session_people, movie_proposals, proposal_comments,
                   watched_movies, nextId>> /\ Quiet

\* the response has arrived: the error of the call is not read
updateRating_response ==
    /\ op.type = "updateRatingResponse"
    /\ movieRatings' = MapSeq(movieRatings, LAMBDA movie :
          IF movie.movieTitle # op.movieTitle THEN movie
          ELSE IF op.rating = 0
               THEN [movie EXCEPT !.ratings = WithoutRating(@, op.personId)]
               ELSE [movie EXCEPT !.ratings = WithRating(@, op.personId, op.rating)])
    /\ shouldSort' = FALSE
    /\ op' = Idle
    /\ last' = [act |-> "updateRatingResponse", movieTitle |-> op.movieTitle,
                personId |-> op.personId, rating |-> op.rating,
                proposalId |-> op.proposalId, ok |-> op.ok]
    /\ UNCHANGED <<people, selectedPersonId, dbVars, feed, opsLeft>> /\ Quiet

\* the updateRating of another tab for B: its upsert
RemoteConflictingRating ==
    /\ CanStart
    /\ \E p \in movie_proposals, rating \in ConflictRatings :
          LET w == UpsertRating(p.id, "B", rating)
          IN  /\ w.events # <<>>
              /\ movie_ratings' = w.ratings
              /\ Enqueue(w.events)
    /\ opsLeft' = opsLeft - 1
    /\ last' = NoStep
    /\ UNCHANGED <<localVars, session_people, movie_proposals, proposal_comments,
                   watched_movies, nextId, op>> /\ Quiet

InitConflict ==
    /\ people = <<>> /\ movieRatings = <<>>
    /\ selectedPersonId = NoPerson /\ shouldSort = TRUE
    /\ session_people = {Person("A", TRUE), Person("B", TRUE), Person("C", FALSE)}
    /\ Seeded
    /\ watched_movies = {}
    /\ op = Loading /\ feed = <<>> /\ opsLeft = MaxConflictOps /\ last = NoStep
    /\ sortCall = NotCalled /\ view = NotCalled
    /\ NoExtras

NextConflict ==
    \/ fetchSessionPeople
    \/ fetchProposalsWithRatingsAndComments
    \/ OnRatingsChange
    \/ RemoteConflictingRating
    \/ updateRating_select
    \/ updateRating_server
    \/ updateRating_response

SpecConflict == InitConflict /\ [][NextConflict]_vars

\* the ratings persisted for a proposal, as a rating map
PersistedRatings(proposalId) ==
    LET rows == { r \in movie_ratings : r.proposal_id = proposalId }
    IN  [q \in { r.person_id : r \in rows } |->
            (CHOOSE r \in rows : r.person_id = q).rating]

\* what a rating map holds for a person: the rating, or nothing
RatingOf(ratings, personId) ==
    IF personId \in DOMAIN ratings THEN {ratings[personId]} ELSE {}

\* C24: when the response of a rating write that the server carried out has
\* arrived and every change event has been delivered, the entry of the
\* proposal shows for the person the rating that is persisted, whatever
\* another tab wrote for the same proposal and person in the meantime.
C24_DisplayIsDurable ==
    (last.act = "updateRatingResponse" /\ last.ok /\ op = Idle /\ feed = <<>>) =>
        \A i \in 1..Len(movieRatings) :
            movieRatings[i].proposalId = last.proposalId =>
                RatingOf(movieRatings[i].ratings, last.personId)
                    = RatingOf(PersistedRatings(last.proposalId), last.personId)

\* C25: in every state of the watched-movies store, detailedRatings holds
\* at most one entry for each pair of a watched movie and a person.
C25_OneEntryPerPair ==
    \A i, j \in 1..Len(detailedRatings) :
        (/\ detailedRatings[i].watched_movie_id = detailedRatings[j].watched_movie_id
         /\ detailedRatings[i].person_id = detailedRatings[j].person_id) => i = j

\* ---- the realtime subscription effects of useMovieSession and
\* ---- useWatchedMoviesData
\*
\* Each store holds one effect with the dependency list [sessionId]. React
\* runs the clean-up of the previous run and then the effect again in the
\* commit that follows a change of sessionId, and runs the clean-up when the
\* hook unmounts. supabase.channel makes a new channel object on every call;
\* supabase.removeChannel takes the channel out of the client, after which no
\* binding of it is called. An event of a table is handed to every binding of
\* a live channel whose filter admits the row.

MaxChannels == 9

RealtimeQuiet ==
    UNCHANGED <<localVars, dbVars, op, feed, opsLeft, helperVars, edge, favVars,
                detailedVars, cookieVars, star, detailsVars>>

\* the session id of a mounted store changes (setSessionId in
\* useMovieSession, the sessionId prop of useWatchedMoviesData): the commit
\* runs the previous clean-up and then the effect for the new id
setSessionId(h, sessionId) ==
    LET st      == realtime.stores[h]
        made    == useEffect_subscribe(h, sessionId, realtime.next)
    IN  /\ st.mounted
        /\ sessionId # st.sessionId
        /\ realtime.next + Cardinality(made) - 1 <= MaxChannels
        /\ realtime' = [stores   |-> [realtime.stores EXCEPT ![h] =
                                        [sessionId |-> sessionId,
                                         previous |-> st.sessionId,
                                         mounted |-> TRUE, effect |-> made]],
                        channels |-> cleanup(realtime.channels, st.effect) \cup made,
                        next     |-> realtime.next + Cardinality(made)]
        /\ last' = [act |-> "setSessionId", store |-> h, previous |-> st.sessionId,
                    sessionId |-> sessionId]
        /\ RealtimeQuiet

\* the hook unmounts: the clean-up of the last effect run
unmount(h) ==
    LET st == realtime.stores[h]
    IN  /\ st.mounted
        /\ realtime' = [realtime EXCEPT
                            !.stores[h] = [st EXCEPT !.mounted = FALSE, !.effect = {}],
                            !.channels = cleanup(realtime.channels, st.effect)]
        /\ last' = [act |-> "unmount", store |-> h, previous |-> st.sessionId,
                    sessionId |-> st.sessionId]
        /\ RealtimeQuiet

\* a change of a row of a session arrives: every binding of a live channel
\* for the table whose filter admits the row runs its handler in its store
postgres_changes(table, rowSession) ==
    LET receivers == { c \in realtime.channels :
                         \E b \in c.bindings :
                            /\ b.table = table
                            /\ b.filter \in {NoFilter, rowSession} }
    IN  /\ last' = [act |-> "postgres_changes", table |-> table,
                    rowSession |-> rowSession,
                    ran |-> { [store     |-> c.store,
                               channel   |-> c.sessionId,
                               sessionId |-> realtime.stores[c.store].sessionId,
                               previous  |-> realtime.stores[c.store].previous,
                               mounted   |-> realtime.stores[c.store].mounted,
                               no        |-> c.no] : c \in receivers }]
        /\ UNCHANGED realtime
        /\ RealtimeQuiet

InitChannels ==
    /\ people = <<>> /\ movieRatings = <<>>
    /\ selectedPersonId = NoPerson /\ shouldSort = TRUE
    /\ EmptyTables
    /\ op = Idle /\ feed = <<>> /\ opsLeft = 0 /\ last = NoStep
    /\ sortCall = NotCalled /\ view = NotCalled
    /\ NoEdge /\ NoFavourite /\ NoDetailed /\ NoCookies /\ NoStar /\ NoFetch
    /\ NoSubscription

NextChannels ==
    \/ \E h \in Stores, sessionId \in SessionIds \cup {NoSession} :
          setSessionId(h, sessionId)
    \/ \E h \in Stores : unmount(h)
    \/ \E table \in RealtimeTables, rowSession \in SessionIds :
          postgres_changes(table, rowSession)

SpecChannels == InitChannels /\ [][NextChannels]_vars

\* C26: the live channels of a store are the ones of its current session id,
\* one per topic and none once the store has unmounted or has no session id,
\* and every handler an event runs belongs to a channel of the session id
\* its store has at that moment.
C26_OneLiveSetPerStore ==
    /\ \A c \in realtime.channels :
          /\ realtime.stores[c.store].mounted
          /\ c.sessionId = realtime.stores[c.store].sessionId
          /\ c.sessionId # NoSession
    /\ \A c, d \in realtime.channels :
          (c.store = d.store /\ c.topic = d.topic) => c = d
    /\ \A h \in Stores :
          (realtime.stores[h].mounted /\ realtime.stores[h].sessionId # NoSession) =>
              { c.topic : c \in { x \in realtime.channels : x.store = h } }
                  = { d.topic : d \in ChannelsOf(h, realtime.stores[h].sessionId) }
    /\ last.act = "postgres_changes" =>
          \A r \in last.ran : r.mounted /\ r.channel = r.sessionId

\* an event of the session a store has left is handled, by the channel of
\* the session the store has now
C26_Witness ==
    /\ last.act = "postgres_changes"
    /\ \E r \in last.ran :
          /\ r.previous = last.rowSession
          /\ r.channel # r.previous

\* ---- the order of the rate tab around a rating: a session with two
\* proposals of which B has rated the first, a tab that selects people,
\* rates and reloads
MaxFreezeOps == 3
FreezeSelections == {"B", "C"}

\* loadSessionData(sid) called again on the loaded session
loadSessionData ==
    /\ op.type = "idle" /\ CanStart
    /\ op' = Loading
    /\ opsLeft' = opsLeft - 1
    /\ last' = NoStep
    /\ UNCHANGED <<localVars, dbVars, feed>> /\ Quiet

InitFreeze ==
    /\ people = <<>> /\ movieRatings = <<>>
    /\ selectedPersonId = NoPerson /\ shouldSort = TRUE
    /\ session_people = {Person("A", TRUE), Person("B", TRUE), Person("C", FALSE)}
    /\ movie_proposals = {[id |-> 1, person_id |-> "A", movie_title |-> 1],
                          [id |-> 2, person_id |-> "A", movie_title |-> 2]}
    /\ movie_ratings = {[proposal_id |-> 1, person_id |-> "A", rating |-> DefaultRating,
                         watched_movie_id |-> 0],
                        [proposal_id |-> 2, person_id |-> "A", rating |-> DefaultRating,
                         watched_movie_id |-> 0],
                        [proposal_id |-> 1, person_id |-> "B", rating |-> 4,
                         watched_movie_id |-> 0]}
    /\ proposal_comments = {} /\ watched_movies = {} /\ nextId = 3
    /\ op = Loading /\ feed = <<>> /\ opsLeft = MaxFreezeOps /\ last = NoStep
    /\ sortCall = NotCalled /\ view = NotCalled
    /\ NoExtras

NextFreeze ==
    \/ fetchSessionPeople
    \/ fetchProposalsWithRatingsAndComments
    \/ OnRatingsChange
    \/ RemoteRating
    \/ updateRating_select
    \/ updateRating_write
    \/ \E id \in FreezeSelections : setSelectedPersonId(id)
    \/ loadSessionData

SpecFreeze == InitFreeze /\ [][NextFreeze]_vars

\* the steps that trigger sorting again: a selection, and the continuation
\* of loadSessionData
SortTriggered ==
    \/ \E id \in FreezeSelections : setSelectedPersonId(id)
    \/ op.type = "load" /\ op'.type = "idle"

C28_RollbackRestoresSnapshot ==
    [][/\ (op.type = "idle" /\ op'.type = "updatePerson") =>
              \E i \in 1..Len(people) :
                  /\ people[i].id = op'.person.id
                  /\ op'.originalPerson = people[i]
       /\ (op.type = "updatePerson" /\ op.pc = "update" /\ last'.act = "rollback") =>
              /\ Len(people') = Len(people)
              /\ \A i \in 1..Len(people) :
                    IF people[i].id = op.person.id
                    THEN /\ people'[i].isPresent = op.originalPerson.isPresent
                         /\ people'[i].movies = op.originalPerson.movies
                         /\ people'[i].id = op.person.id
                    ELSE people'[i] = people[i]
      ]_vars

\* a failed presence update has been rolled back: the person is shown with
\* the presence and the movies of before the call, which the optimistic
\* record had changed, and the roster holds other people
C28_Witness ==
    /\ last.act = "rollback"
    /\ last.snapshot # last.optimistic
    /\ \E i, j \in 1..Len(people) :
          /\ people[i] = last.snapshot /\ people[i].id = last.personId
          /\ people[j].id # last.personId

\* C29: when the batch of updatePersonMovies has settled and the round trip
\* of its last title failed, by an error of the edge function or by a
\* failure of the write of the proposer's default rating, movieRatings
\* holds no entry of that title for the proposer.
C29_FailedProposalRemoved ==
    (op = Idle /\ last.act \in {"invoke", "propose"} /\ ~last.ok) =>
        \A i \in 1..Len(movieRatings) :
            ~(/\ movieRatings[i].movieTitle = last.movieTitle
              /\ movieRatings[i].proposerId = last.personId)

\* C30: the step that resolves the delete of deletePerson(id), before any
\* of its change events is delivered, leaves people without the person and
\* movieRatings without any entry proposed by the person when the delete
\* succeeded, and leaves people and movieRatings as they were when it failed.
C30_DeletePersonLocalRemoval ==
    [][(op.type = "deletePerson" /\ last'.act = "deletePerson" /\ last'.step = "delete") =>
          IF last'.ok
          THEN /\ \A i \in 1..Len(people') : people'[i].id # op.id
               /\ \A i \in 1..Len(movieRatings') : movieRatings'[i].proposerId # op.id
               /\ Len(feed') >= Len(feed)
               /\ \A k \in 1..Len(feed) : feed'[k] = feed[k]
          ELSE people' = people /\ movieRatings' = movieRatings
      ]_vars

\* a person who had proposed has just been deleted: the events of the
\* delete are all undelivered, and the roster and the proposals of the
\* others are still there
C30_Witness ==
    /\ last.act = "deletePerson" /\ last.step = "delete" /\ last.ok
    /\ \E k \in 1..Len(feed) :
          feed[k].table = "movie_proposals" /\ feed[k].eventType = "DELETE"
    /\ \E k \in 1..Len(feed) :
          feed[k].table = "session_people" /\ feed[k].eventType = "DELETE"
              /\ feed[k].id = last.id
    /\ people # <<>>

\* ---- the watched-movies page with a budget of two calls
MaxPresenceOps == 2

InitPresence ==
    /\ people = <<>> /\ movieRatings = <<>>
    /\ selectedPersonId = NoPerson /\ shouldSort = TRUE
    /\ session_people = {} /\ movie_proposals = {} /\ movie_ratings = {}
    /\ proposal_comments = {} /\ watched_movies = {} /\ nextId = 3
    /\ op = Idle /\ feed = <<>> /\ opsLeft = MaxPresenceOps /\ last = NoStep
    /\ sortCall = NotCalled /\ view = NotCalled
    /\ NoEdge /\ NoFavourite /\ NoCookies /\ NoStar /\ NoRealtime /\ NoFetch
    /\ detailed_ratings \in DetailedSeeds
    /\ detailedRatings \in Orderings(detailed_ratings)
    /\ localPresentStates = <<>>

SpecPresence == InitPresence /\ [][NextDetailed]_vars

\* C31: updateDetailedRating sends its upsert only when a score is given or
\* present is true, and the presence toggle only when it switches presence
\* on or the list holds a row of the pair; a toggle that switches presence
\* off for a pair of which the list holds no row, and an updateDetailedRating
\* with no score and present false, send nothing, write nothing, queue no
\* event and leave detailedRatings as it was.
C31_NothingToPersist ==
    [][/\ (op = Idle /\ op'.type = "detailed") => (op'.rating # Null \/ op'.present)
       /\ (op = Idle /\ op'.type = "present") =>
              (op'.present \/ RowsOf(op'.movieId, op'.personId) # {})
       /\ \A personId \in DetailedPersons :
              (\/ handlePresentChange(1, personId, FALSE) /\ RowsOf(1, personId) = {}
               \/ updateDetailedRating(1, personId, Null, FALSE)) =>
                    /\ op' = Idle
                    /\ detailed_ratings' = detailed_ratings
                    /\ feed' = feed
                    /\ detailedRatings' = detailedRatings
      ]_vars

\* presence was switched off for a pair without a row: only the local
\* toggle has changed
C31_Witness ==
    /\ last.act = "handlePresentChange" /\ ~last.present /\ ~last.entryExists
    /\ op = Idle
    /\ RowsOf(last.movieId, last.personId) = {}
    /\ DetailedRow(last.movieId, last.personId) = {}
    /\ localPresentStates[LocalKey(last.movieId, last.personId)] = FALSE

\* what the three tiers give for a pair: the local toggle, else the flag
\* of the persisted row, else absent
PresentByTiers(movieId, personId) ==
    IF LocalKey(movieId, personId) \in DOMAIN localPresentStates
    THEN localPresentStates[LocalKey(movieId, personId)]
    ELSE IF DetailedRow(movieId, personId) = {} THEN FALSE
    ELSE orElse((CHOOSE r \in DetailedRow(movieId, personId) : TRUE).present, FALSE)

\* C32: when no call is in flight and every change event has been delivered,
\* a person is among the present person ids of a movie exactly when the
\* local toggle of the pair says so, or, without a local toggle, when the
\* persisted row of the pair has present = true; without toggle and row, or
\* with the flag unset, the person is absent.
C32_PresentFallback ==
    (op = Idle /\ feed = <<>>) =>
        \A movieId \in 1..2, personId \in DetailedPersons :
            Contains(getPresentPersonIds(movieId, watchedPeople, detailedRatings,
                                         localPresentStates), personId)
                <=> PresentByTiers(movieId, personId)

\* ---- the three handlers of the session store on any event: the store
\* holds a roster and a list of entries, and the feed holds events of rows
\* the store knows and of rows it does not know
MaxEventId == 3

EventRosters ==
    {<<[id |-> "A", isPresent |-> TRUE, movies |-> <<1>>],
       [id |-> "B", isPresent |-> FALSE, movies |-> <<>>]>>,
     <<[id |-> "A", isPresent |-> TRUE, movies |-> <<1, 2>>]>>}

EventEntries ==
    {<<>>,
     <<Movie(1, "A", 1, WithRating(NoRatings, "A", DefaultRating))>>,
     <<Movie(1, "A", 1, WithRating(NoRatings, "A", DefaultRating)),
       Movie(2, "A", 2, WithRating(WithRating(NoRatings, "A", DefaultRating), "B", 3))>>,
     <<Movie(1, "A", 1, WithRating(NoRatings, "B", 3)),
       Movie(2, "A", 0, WithRating(NoRatings, "A", DefaultRating))>>,
     <<Movie(2, "A", 0, WithRating(NoRatings, "A", DefaultRating))>>}

PersonEventInputs ==
    { PersonEvent(t, [id |-> id, is_present |-> b]) :
        t \in {"INSERT", "UPDATE", "DELETE"}, id \in {"A", "C"}, b \in BOOLEAN }

RowEventInputs ==
    { ProposalEvent(t, [id |-> id, person_id |-> "A", movie_title |-> 3]) :
        t \in {"INSERT", "UPDATE", "DELETE"}, id \in 1..MaxEventId }
    \cup { RatingEvent(t, [proposal_id |-> id, person_id |-> "B", rating |-> 4]) :
        t \in {"INSERT", "UPDATE", "DELETE"}, id \in 1..MaxEventId }
    \cup { RatingDeleteEvent([proposal_id |-> 1, person_id |-> "B", rating |-> 4], FALSE) }

InitEvents ==
    /\ people \in EventRosters /\ movieRatings \in EventEntries
    /\ selectedPersonId = NoPerson /\ shouldSort = TRUE
    /\ EmptyTables
    /\ op = Idle /\ opsLeft = 0 /\ last = NoStep
    /\ \/ \E e \in PersonEventInputs : feed = <<e>>
       \/ \E e \in RowEventInputs : feed = <<e>>
    /\ sortCall = NotCalled /\ view = NotCalled
    /\ NoExtras

NextEvents ==
    \/ OnRatingsChange
    \/ OnPeopleChange
    \/ OnProposalsChange

SpecEvents == InitEvents /\ [][NextEvents]_vars

IsUpdateOfUnknown(e) ==
    /\ e.eventType = "UPDATE"
    /\ \/ e.table = "session_people" /\ \A i \in 1..Len(people) : people[i].id # e.id
       \/ /\ e.table = "movie_proposals"
          /\ \A i \in 1..Len(movieRatings) : movieRatings[i].proposalId # e.id

IsRatingOfUnknown(e) ==
    /\ e.table = "movie_ratings"
    /\ \A i \in 1..Len(movieRatings) : movieRatings[i].proposalId # e.proposal_id

\* the positions of a list that hold the id, and the list without them
Kept(list, Id(_), id) == SelectSeq(list, LAMBDA x : Id(x) # id)

\* C33: the handler of an UPDATE of a person or a proposal the store does
\* not hold, and of a rating event of a proposal the store does not hold,
\* leaves people and movieRatings as they were; the handler of a DELETE of a
\* person leaves the roster without the people of that id, in the same
\* order, and movieRatings as it was; the handler of a DELETE of a proposal
\* leaves movieRatings without the entries of that proposal id, in the same
\* order, and the roster as it was.
C33_EventsTouchOnlyTheirRow ==
    [][feed # <<>> =>
        LET e == Head(feed)
        IN  /\ (IsUpdateOfUnknown(e) \/ IsRatingOfUnknown(e)) =>
                  (people' = people /\ movieRatings' = movieRatings)
            /\ (e.table = "session_people" /\ e.eventType = "DELETE") =>
                  /\ people' = Kept(people, LAMBDA p : p.id, e.id)
                  /\ movieRatings' = movieRatings
            /\ (e.table = "movie_proposals" /\ e.eventType = "DELETE") =>
                  /\ movieRatings' = Kept(movieRatings, LAMBDA m : m.proposalId, e.id)
                  /\ people' = people
      ]_vars

\* the DELETE of a proposal has been handled: its entry is gone, the entry
\* of another proposal and an entry without a proposal id are still there
C33_Witness ==
    /\ last.act = "proposalsDelete"
    /\ \A i \in 1..Len(movieRatings) : movieRatings[i].proposalId # last.id
    /\ \E i \in 1..Len(movieRatings) : movieRatings[i].proposalId = 0
    /\ \E i \in 1..Len(people) : Contains(people[i].movies, 1)

\* ---- the watched-movies page when rows of detailed_ratings are deleted
\* (by a cascade or by hand: the page itself never deletes a row)
MaxDeleteOps == 3

RemoteDetailedDelete ==
    /\ opsLeft > 0
    /\ opsLeft' = opsLeft - 1
    /\ \E row \in detailed_ratings :
          /\ detailed_ratings' = detailed_ratings \ {row}
          /\ feed' = Append(feed, DetailedDeleteEvent(row))
    /\ last' = NoStep
    /\ UNCHANGED <<op, detailedRatings, localPresentStates, nextId>>
    /\ DetailedQuiet

InitDelete ==
    /\ people = <<>> /\ movieRatings = <<>>
    /\ selectedPersonId = NoPerson /\ shouldSort = TRUE
    /\ session_people = {} /\ movie_proposals = {} /\ movie_ratings = {}
    /\ proposal_comments = {} /\ watched_movies = {} /\ nextId = 3
    /\ op = Idle /\ feed = <<>> /\ opsLeft = MaxDeleteOps /\ last = NoStep
    /\ sortCall = NotCalled /\ view = NotCalled
    /\ NoEdge /\ NoFavourite /\ NoCookies /\ NoStar /\ NoRealtime /\ NoFetch
    /\ detailed_ratings \in DetailedSeeds
    /\ detailedRatings \in Orderings(detailed_ratings)
    /\ localPresentStates = <<>>

NextDelete ==
    \/ \E personId \in DetailedPersons, rating \in DetailedScores \cup {Null},
          present \in BOOLEAN : updateDetailedRating(1, personId, rating, present)
    \/ \E ok \in BOOLEAN : updateDetailedRating_upsert(ok)
    \/ OnDetailedRatingsChange
    \/ RemoteDetailedDelete

SpecDelete == InitDelete /\ [][NextDelete]_vars

\* C34: the step that handles the DELETE event of a detailed rating leaves
\* detailedRatings without any row of the (movie, person) pair of the
\* deleted row, and with the rows of every other pair as they were.
C34_DeleteRemovesThePair ==
    [][(/\ feed # <<>> /\ feed' = Tail(feed)
        /\ Head(feed).table = "detailed_ratings" /\ Head(feed).eventType = "DELETE") =>
          LET row == Head(feed).row
              Other(r) == ~(/\ r.watched_movie_id = row.watched_movie_id
                            /\ r.person_id = row.person_id)
          IN  /\ \A i \in 1..Len(detailedRatings') : Other(detailedRatings'[i])
              /\ SelectSeq(detailedRatings', Other) = SelectSeq(detailedRatings, Other)
      ]_vars

\* ---- fetchMovieDetails, saveMovieDetailsToDatabase, fetchAllMovieDetails
\* The details of a movie are modelled by their poster: "none" is
\* details === undefined, "N/A" details whose poster is 'N/A'.
MaxDetailsOps == 2
NoDetails == "none"
Details == {"N/A", "poster"}
LookupResults == {NoDetails} \cup Details

MovieWithDetails(title, proposerId, proposalId, ratings, details) ==
    [movieTitle |-> title, proposerId |-> proposerId, proposalId |-> proposalId,
     ratings |-> ratings, details |-> details]

ProposalWithDetails(id, personId, title, poster) ==
    [id |-> id, person_id |-> personId, movie_title |-> title, poster |-> poster]

ProposalDetailsEvent(row) ==
    [table |-> "movie_proposals", eventType |-> "UPDATE", id |-> row.id,
     person_id |-> row.person_id, proposal_id |-> 0, movie_title |-> row.movie_title,
     rating |-> 0, is_present |-> FALSE, poster |-> row.poster]

\* movie.details && movie.details.poster && movie.details.poster !== 'N/A'
HasPoster(movie) == movie.details = "poster"

\* the array Promise.all resolves with: { ...movie, details } for every
\* movie that was looked up, the movie itself for the others
\* mutant: one failed look-up and the batch keeps the captured list
updated_FailFast(captured, results) ==
    IF \E i \in 1..Len(captured) : ~HasPoster(captured[i]) /\ results[i] = NoDetails
    THEN captured
    ELSE [i \in 1..Len(captured) |->
            IF HasPoster(captured[i]) THEN captured[i]
            ELSE [captured[i] EXCEPT !.details = results[i]]]

updated(captured, results) ==
    [i \in 1..Len(captured) |->
        IF HasPoster(captured[i]) THEN captured[i]
        ELSE [captured[i] EXCEPT !.details = results[i]]]

DetailsQuiet ==
    UNCHANGED <<people, selectedPersonId, shouldSort, session_people, movie_ratings,
                proposal_comments, watched_movies, nextId, op, helperVars, edge,
                favVars, detailedVars, cookieVars, star, realtime>>

\* one task of the batch has settled; when it was the last one, Promise.all
\* resolves and the rest of fetchAllMovieDetails runs: setMovieRatings(updated)
\* and, in the finally block, setFetchingDetails(false)
TaskSettled(next) ==
    IF \A i \in 1..Len(next.captured) : next.pc[i] = "done"
    THEN /\ movieRatings' = updated(next.captured, next.results)
         /\ fetchingDetails' = FALSE
         /\ fetchAllOp' = Idle
         /\ last' = [act |-> "fetchAllMovieDetails", step |-> "end",
                     captured |-> next.captured, lookups |-> next.lookups,
                     saved |-> next.saved]
    ELSE /\ fetchAllOp' = next
         /\ last' = [act |-> "fetchAllMovieDetails", step |-> "settle"]
         /\ UNCHANGED <<movieRatings, fetchingDetails>>

\* the click on "Update Details" (disabled while fetchingDetails), up to
\* the await of Promise.all: every look-up has been issued
fetchAllMovieDetails ==
    /\ ~fetchingDetails /\ fetchAllOp = Idle /\ CanStart
    /\ opsLeft' = opsLeft - 1
    /\ IF movieRatings = <<>>
       THEN /\ last' = [act |-> "fetchAllMovieDetails", step |-> "empty"]
            /\ UNCHANGED <<movieRatings, fetchingDetails, fetchAllOp>>
       ELSE LET pending == { i \in 1..Len(movieRatings) : ~HasPoster(movieRatings[i]) }
                next == [type |-> "fetchAllMovieDetails", captured |-> movieRatings,
                         pc |-> [i \in 1..Len(movieRatings) |->
                                    IF i \in pending THEN "lookup" ELSE "done"],
                         results |-> [i \in 1..Len(movieRatings) |-> movieRatings[i].details],
                         lookups |-> [i \in 1..Len(movieRatings) |-> NoDetails],
                         saved |-> {}]
            IN  IF pending = {}
                THEN TaskSettled(next)
                ELSE /\ fetchAllOp' = next
                     /\ fetchingDetails' = TRUE
                     /\ last' = [act |-> "fetchAllMovieDetails", step |-> "call",
                                 issued |-> pending]
                     /\ UNCHANGED movieRatings
    /\ UNCHANGED <<movie_proposals, feed>>
    /\ DetailsQuiet

\* functions.invoke('search-movie') of task i has resolved: an error or a
\* 404 makes fetchMovieDetails return undefined and ends the task, details
\* go on to saveMovieDetailsToDatabase
fetchMovieDetails(i, details) ==
    /\ fetchAllOp # Idle /\ i \in DOMAIN fetchAllOp.pc /\ fetchAllOp.pc[i] = "lookup"
    /\ TaskSettled([fetchAllOp EXCEPT
            !.pc[i] = IF details = NoDetails THEN "done" ELSE "save",
            !.results[i] = details,
            !.lookups[i] = details])
    /\ UNCHANGED <<movie_proposals, feed, opsLeft>>
    /\ DetailsQuiet

\* the update of movie_proposals of task i has resolved; its error is not
\* read
saveMovieDetailsToDatabase(i, ok) ==
    /\ fetchAllOp # Idle /\ i \in DOMAIN fetchAllOp.pc /\ fetchAllOp.pc[i] = "save"
    /\ LET title == fetchAllOp.captured[i].movieTitle
           rows == { p \in movie_proposals : p.movie_title = title }
           new == { [p EXCEPT !.poster = fetchAllOp.results[i]] : p \in rows }
       IN  /\ movie_proposals' = IF ok THEN (movie_proposals \ rows) \cup new
                                 ELSE movie_proposals
           /\ Enqueue(IF ok THEN MapSeq(SetToSeq(new), ProposalDetailsEvent) ELSE <<>>)
    /\ Pay(ok)
    /\ TaskSettled([fetchAllOp EXCEPT !.pc[i] = "done",
                                      !.saved = IF ok THEN @ \cup {i} ELSE @])
    /\ DetailsQuiet

DetailsSeeds == { <<d1, d2>> : d1 \in LookupResults, d2 \in LookupResults }

InitDetails ==
    /\ people = <<[id |-> "A", isPresent |-> TRUE, movies |-> <<1, 2>>],
                  [id |-> "B", isPresent |-> TRUE, movies |-> <<>>]>>
    /\ selectedPersonId = NoPerson /\ shouldSort = TRUE
    /\ session_people = {Person("A", TRUE), Person("B", TRUE)}
    /\ \E d \in DetailsSeeds :
          /\ movie_proposals = {ProposalWithDetails(1, "A", 1, d[1]),
                                ProposalWithDetails(2, "A", 2, d[2])}
          /\ movieRatings = <<MovieWithDetails(1, "A", 1, NoRatings, d[1]),
                              MovieWithDetails(2, "A", 2, NoRatings, d[2])>>
    /\ movie_ratings = {} /\ proposal_comments = {} /\ watched_movies = {}
    /\ nextId = 3
    /\ op = Idle /\ feed = <<>> /\ opsLeft = MaxDetailsOps /\ last = NoStep
    /\ sortCall = NotCalled /\ view = NotCalled
    /\ NoExtras

NextDetails ==
    \/ fetchAllMovieDetails
    \/ \E i \in 1..2, details \in LookupResults : fetchMovieDetails(i, details)
    \/ \E i \in 1..2, ok \in Outcomes : saveMovieDetailsToDatabase(i, ok)
    \/ OnProposalsChange
    \/ OnRatingsChange
    \/ RemoteRating
    \/ updateRating_select
    \/ updateRating_write

SpecDetails == InitDetails /\ [][NextDetails]_vars

BatchEnded == last.act = "fetchAllMovieDetails" /\ last.step = "end"

\* C35: fetchAllMovieDetails issues a look-up for exactly the movies without
\* a poster; when the batch ends, fetchingDetails is false, every movie that
\* had a poster is as it was captured, every other movie shows what its own
\* look-up returned (nothing when it failed or found nothing), whatever the
\* other look-ups did, and the details whose save went through are in the
\* rows of that title.
C35_BatchToleratesFailures ==
    [][/\ (last'.act = "fetchAllMovieDetails" /\ last'.step = "call") =>
             /\ last'.issued = { i \in 1..Len(movieRatings) : ~HasPoster(movieRatings[i]) }
             /\ fetchingDetails'
       /\ BatchEnded' =>
             /\ ~fetchingDetails'
             /\ Len(movieRatings') = Len(last'.captured)
             /\ \A i \in 1..Len(last'.captured) :
                   LET before == last'.captured[i]
                       after  == movieRatings'[i]
                   IN  /\ after.movieTitle = before.movieTitle
                       /\ HasPoster(before) => after.details = before.details
                       /\ ~HasPoster(before) =>
                             /\ after.details = last'.lookups[i]
                             /\ i \in last'.saved =>
                                   \A p \in movie_proposals' :
                                      p.movie_title = before.movieTitle =>
                                         p.poster = last'.lookups[i]
      ]_vars

C35_Witness ==
    /\ BatchEnded /\ ~fetchingDetails
    /\ \E i, j \in 1..Len(last.captured) :
          /\ ~HasPoster(last.captured[i]) /\ last.lookups[i] = NoDetails
          /\ movieRatings[i].details = NoDetails
          /\ ~HasPoster(last.captured[j]) /\ last.lookups[j] = "poster"
          /\ j \in last.saved /\ movieRatings[j].details = "poster"
          /\ \A p \in movie_proposals :
                p.movie_title = movieRatings[j].movieTitle => p.poster = "poster"

\* C38: the step that ends fetchAllMovieDetails leaves every rating map of
\* movieRatings as it was just before the step: the ratings applied while
\* the batch was in flight, by updateRating or by a change event, are kept.
C38_BatchKeepsRatings ==
    [][BatchEnded' =>
          /\ Len(movieRatings') = Len(movieRatings)
          /\ \A i \in 1..Len(movieRatings) :
                movieRatings'[i].ratings = movieRatings[i].ratings
      ]_vars

\* ---- the mutations of useMovieSession called with and without a session:
\* the page shows a roster and a list, and the session id is either that of
\* the session shown or null (setSessionId(null) keeps people and
\* movieRatings)
MaxGuardOps == 2

InitGuards ==
    /\ people = <<[id |-> "A", isPresent |-> TRUE, movies |-> <<1>>],
                  [id |-> "B", isPresent |-> TRUE, movies |-> <<>>]>>
    /\ movieRatings = <<Movie(1, "A", 1, WithRating(NoRatings, "A", DefaultRating))>>
    /\ selectedPersonId = NoPerson /\ shouldSort = TRUE
    /\ session_people = {Person("A", TRUE), Person("B", TRUE)}
    /\ Seeded
    /\ watched_movies = {}
    /\ op = Idle /\ feed = <<>> /\ opsLeft = MaxGuardOps /\ last = NoStep
    /\ sortCall = NotCalled /\ view = NotCalled
    /\ NoEdge /\ NoFavourite /\ NoDetailed /\ NoCookies /\ NoStar /\ NoFetch
    /\ (NoSubscription \/ Subscribed("s1"))

NextGuards ==
    \/ addPerson
    \/ addPerson_insert
    \/ addPerson_response
    \/ updatePerson
    \/ updatePerson_update
    \/ updatePersonMovies_select
    \/ updateRating_select
    \/ updateRating_write
    \/ markMovieAsWatched_proposal
    \/ markMovieAsWatched_proposer
    \/ markMovieAsWatched_insert
    \/ markMovieAsWatched_repoint
    \/ markMovieAsWatched_comments
    \/ markMovieAsWatched_delete
    \/ OnRatingsChange
    \/ OnPeopleChange
    \/ OnProposalsChange

SpecGuards == InitGuards /\ [][NextGuards]_vars

\* C36: a mutation called without a session, and addPerson called with a
\* blank name, sends no request, leaves no call in flight and leaves people,
\* movieRatings and the tables as they were.
C36_NoSessionNoRequest ==
    [][(\/ last'.act = "noSession"
        \/ (last'.act = "addPerson" /\ last'.step = "blank")) =>
          /\ (last'.act = "noSession" => last'.requests = 0)
          /\ op' = Idle
          /\ people' = people /\ movieRatings' = movieRatings
          /\ UNCHANGED <<dbVars, feed>>
      ]_vars

\* C37: when updateRating(title, person, r) has written its row, every
\* entry of movieRatings that carries a proposal id shows for that person
\* what movie_ratings holds for that proposal and person: r (or nothing,
\* for r = 0) for the proposal written, and no change for any other
\* proposal, of the same title or not.
C37_RatingAgreesPerProposal ==
    [][(last'.act = "updateRating" /\ last'.ok) =>
          \A i \in 1..Len(movieRatings') :
             LET movie == movieRatings'[i]
                 rows == { r \in movie_ratings' : /\ r.proposal_id = movie.proposalId
                                                  /\ r.person_id = last'.personId }
             IN  movie.proposalId # 0 =>
                    /\ (last'.personId \in DOMAIN movie.ratings) = (rows # {})
                    /\ \A r \in rows : movie.ratings[last'.personId] = r.rating
      ]_vars

\* ---- WatchedMovies/utils.getSortedFilteredMovies
RateSortModes == {"date-desc", "date-asc", "voted", "not-voted", "absent", "not-fully-rated"}
StatusModes == {"voted", "not-voted", "absent"}

\* the filter of the "absent" mode
\* mutant: absent is whoever was not present, voter or not
AbsentFilter_IgnoresVote(wasPresent, voted) == ~wasPresent
AbsentFilter(wasPresent, voted) == ~wasPresent /\ ~voted

getSortedFilteredMovies(watchedMovies, rateSortMode, rateSortAsc, personId, persons, rows, local) ==
    LET WasPresent(m) == Contains(getPresentPersonIds(m.id, persons, rows, local), personId)
        Voted(m) == hasSelectedPersonVoted(m.id, personId, rows)
        movies ==
            IF rateSortMode = "voted" /\ personId # NoPerson
            THEN SelectSeq(watchedMovies, Voted)
            ELSE IF rateSortMode = "not-voted" /\ personId # NoPerson
            THEN SelectSeq(watchedMovies, LAMBDA m : WasPresent(m) /\ ~Voted(m))
            ELSE IF rateSortMode = "absent" /\ personId # NoPerson
            THEN SelectSeq(watchedMovies, LAMBDA m : AbsentFilter(WasPresent(m), Voted(m)))
            ELSE IF rateSortMode = "not-fully-rated"
            THEN SelectSeq(watchedMovies, LAMBDA m : ~isFullyRated(m.id, persons, rows, local))
            ELSE watchedMovies
    IN  IF rateSortMode \in {"date-desc", "date-asc"}
        THEN ArraySort([by |-> "date", asc |-> (rateSortMode = "date-asc")], movies)
        ELSE ArraySort([by |-> "date", asc |-> rateSortAsc], movies)

\* the inputs: two watched movies, up to MaxRows detailed ratings of the
\* first one (unrated or rated 0, by the selected person or by another; a
\* pair may have several rows), a local toggle or none
MaxRows == 2
FilterRows ==
    { DetailedRating(0, 1, personId, rating, present) :
        personId \in DetailedPersons, rating \in {Null, 0},
        present \in {{}, {TRUE}, {FALSE}} }
FilterLists ==
    UNION { { [i \in 1..n |-> [f[i] EXCEPT !.id = i]] : f \in [1..n -> FilterRows] } :
            n \in 0..MaxRows }
FilterToggles ==
    {<<>>} \cup { [k \in {LocalKey(1, "A")} |-> b] : b \in BOOLEAN }
WatchedList ==
    <<[id |-> 1, movie_title |-> 1, proposed_by |-> "A", watched_at |-> 2],
      [id |-> 2, movie_title |-> 2, proposed_by |-> "B", watched_at |-> 1]>>

InitFilter ==
    /\ people = <<>> /\ movieRatings = <<>>
    /\ selectedPersonId \in {NoPerson, "A"}
    /\ shouldSort = TRUE
    /\ session_people = {} /\ movie_proposals = {} /\ movie_ratings = {}
    /\ proposal_comments = {} /\ nextId = 3
    /\ watched_movies = { WatchedList[i] : i \in 1..Len(WatchedList) }
    /\ op = Idle /\ feed = <<>> /\ opsLeft = 0 /\ last = NoStep
    /\ sortCall = NotCalled /\ view = NotCalled
    /\ NoEdge /\ NoFavourite /\ NoCookies /\ NoStar /\ NoRealtime /\ NoFetch
    /\ detailedRatings \in FilterLists
    /\ detailed_ratings = { detailedRatings[i] : i \in 1..Len(detailedRatings) }
    /\ localPresentStates \in FilterToggles

\* the list of the page is rendered in a mode
RenderWatchedList(rateSortMode, rateSortAsc) ==
    /\ view' = [called |-> TRUE, rateSortMode |-> rateSortMode,
                rateSortAsc |-> rateSortAsc,
                movies |-> getSortedFilteredMovies(WatchedList, rateSortMode, rateSortAsc,
                                                   selectedPersonId, watchedPeople,
                                                   detailedRatings, localPresentStates)]
    /\ UNCHANGED <<localVars, dbVars, ctlVars, last, sortCall, extraVars>>

NextFilter ==
    \E rateSortMode \in RateSortModes, rateSortAsc \in BOOLEAN :
        RenderWatchedList(rateSortMode, rateSortAsc)

SpecFilter == InitFilter /\ [][NextFilter]_vars

ShownIn(rateSortMode) ==
    LET movies == getSortedFilteredMovies(WatchedList, rateSortMode, TRUE, selectedPersonId,
                                          watchedPeople, detailedRatings, localPresentStates)
    IN  { movies[i].id : i \in 1..Len(movies) }

\* C39: with a person selected, every watched movie is in the list of
\* exactly one of the modes "voted", "not-voted" and "absent", whatever the
\* detailed ratings and the local presence toggles are.
C39_StatusFiltersPartition ==
    selectedPersonId # NoPerson =>
        \A i \in 1..Len(WatchedList) :
            Cardinality({ mode \in StatusModes : WatchedList[i].id \in ShownIn(mode) }) = 1

\* a rendered "voted" list holding a movie the person rated while absent,
\* which the "absent" list does not hold
C39_Witness ==
    /\ view # NotCalled /\ view.rateSortMode = "voted" /\ selectedPersonId # NoPerson
    /\ \E i \in 1..Len(view.movies) :
          /\ ~Contains(getPresentPersonIds(view.movies[i].id, watchedPeople, detailedRatings,
                                           localPresentStates), selectedPersonId)
          /\ view.movies[i].id \notin ShownIn("absent")
          /\ view.movies[i].id \notin ShownIn("not-voted")
    /\ 2 \in ShownIn("absent")

\* C40: toggleFavourite(X) called right after a toggleFavourite(X) of the
\* same person that found no favourite and stored X, finding X still that
\* person's favourite, takes the delete branch; when its requests went
\* through the person has no favourite row and favoriteProposalId is null.
TwiceInSuccession ==
    /\ last.act = "toggleFavourite" /\ last.step \in {"upsert", "delete"}
    /\ last.selectOk /\ last.ok
    /\ last.previous.step = "upsert" /\ last.previous.selectOk /\ last.previous.ok
    /\ last.previous.existing = Null
    /\ last.previous.personId = last.personId
    /\ last.previous.proposalId = last.proposalId
    /\ last.existing = last.proposalId
    /\ { f \in last.rowsBefore : f.person_id = last.personId }
          = {[person_id |-> last.personId, proposal_id |-> last.proposalId]}

C40_ToggleTwiceIsNoFavourite ==
    TwiceInSuccession =>
        /\ last.step = "delete"
        /\ FavouriteOf(last.personId) = {}
        /\ favoriteProposalId = Null

C40_Witness ==
    /\ TwiceInSuccession /\ last.step = "delete"
    /\ last.localBefore = last.proposalId
    /\ selectedPersonId = last.personId
    /\ FavouriteOf(selectedPersonId) = {} /\ favoriteProposalId = Null

====
